---- MODULE Spec2Model ----
(***************************************************************************)
(* Model of the pipeline execution engine of the image registration        *)
(* package: image_registration/pipeline/base_pipeline.py                   *)
(* (PipelineStep, BasePipeline.add_step, BasePipeline.execute).            *)
(*                                                                         *)
(* A step is an opaque callback object.  What its validate_inputs,         *)
(* execute and cleanup do is an input of the engine, drawn from small sets *)
(* at the moment the engine calls them.  Failures are Python Exceptions    *)
(* (the engine's handlers are `except Exception`).  Steps follow the       *)
(* PipelineStep contract of the package: execute reads the context it is   *)
(* given and returns a dict of produced keys; no step of the package       *)
(* writes into the dict it receives.  Wall-clock times are not modelled.   *)
(* A pipeline object is built with add_step and then executed once.        *)
(*                                                                         *)
(* The second part models the batch layer of                                *)
(* image_registration/pipeline/batch_preprocessing.py: a run of            *)
(* BatchPreprocessingPipeline (discovery, training of the shared           *)
(* standardizer, fan-out over a thread pool, reporting) under the engine   *)
(* above.  It has its own specification, SpecBatch.                        *)
(***************************************************************************)
EXTENDS Integers, Sequences, FiniteSets, TLC

\* ------------------------------------------------------------------ bounds
MaxSteps == 3      \* at most this many add_step calls
MaxPatients == 3   \* at most this many discovered patients
MaxWorkers == 2    \* largest max_workers of the thread pool
MaxEntries == 2    \* at most this many entries in the scanned base directory
MaxLandmarks == 3  \* longest landmarks_percentage of a NyulStandardizer
MaxOps == 3        \* at most this many calls on the standardizer objects
MaxVoxels == 3     \* most voxels of an image given to NyulStandardizer.transform
MaxRuns == 2       \* at most this many execute calls on one pipeline object

\* The context keys of the model: one key of the caller's input and one key
\* a step produces (names of the preprocessing pipeline of the package).
Keys == {"t2w_image", "t2w_standardized"}

\* ------------------------------------------------------------ the state
VARIABLES
    steps,               \* self.steps: sequence of step names (a step is its index)
    stepStatus,          \* step.status of every step of self.steps
    status,              \* self.status
    continue_on_error,   \* self.continue_on_error
    current_step_index,  \* self.current_step_index (0-based, as in the code)
    input_data,          \* the caller's input mapping (results['input_data'])
    current_data,        \* the local current_data of execute
    step_results,        \* self.results['step_results'], keyed by step name
    steps_executed,      \* self.results['metadata']['steps_executed']
    errors,              \* self.errors
    results_error,       \* whether self.results['error'] is set
    meta_status,         \* self.results['metadata']['status'] ("unset" before finalisation)
    pc,                  \* position inside execute: idle, validate, execute, cleanup, finish
    raising,             \* an exception re-raised at line 164 is propagating
    outcome,             \* how the execute call ended: none, returned, raised
    calls                \* the calls the engine made on steps in the current run:
                         \* <<method, position of the step, what it did, context passed>>

evars == <<steps, stepStatus, status, continue_on_error, current_step_index,
           input_data, current_data, step_results, steps_executed, errors,
           results_error, meta_status, pc, raising, outcome, calls>>

\* ------------------------------------------- the state of the batch layer
VARIABLES
    b_method,            \* standardization_method of BatchPreprocessingPipeline
    b_parallel,          \* parallel_processing
    b_max_workers,       \* max_workers
    b_pc,                \* position of the batch run
    b_coe,               \* continue_on_error of the batch run
    b_ctx,               \* key set of current_data of the batch run
    b_stepStatus,        \* status of the four steps of the batch pipeline
    b_raising,           \* an exception of a step is propagating
    b_status,            \* self.status of the batch pipeline
    b_outcome,           \* how execute of the batch pipeline ended
    patients,            \* data['patients']: the patient ids, in list order
    fate,                \* what processing each patient does (its files, its directory)
    std,                 \* the NyulStandardizer trained by BatchStandardizationStep
    std_at_fanout,       \* std as it was when BatchProcessingStep.execute began
    mode,                \* branch taken at line 217: none, concurrent, sequential
    queue,               \* work queue of the ThreadPoolExecutor
    running,             \* patients being processed
    futures,             \* state of the future of every patient
    asc_started,         \* as_completed has been entered
    asc_pre,             \* futures that were finished when as_completed was entered
    asc_waiter,          \* futures finished since, in completion order
    collected,           \* futures as_completed has yielded
    res_successful,      \* results['successful']
    res_failed,          \* results['failed']
    detailed_results,    \* results['detailed_results'], in insertion order
    started,             \* the patients in the order their processing began
    summary              \* the summary written by BatchReportingStep

bvars == <<b_method, b_parallel, b_max_workers, b_pc, b_coe, b_ctx,
           b_stepStatus, b_raising, b_status, b_outcome, patients, fate, std,
           std_at_fanout, mode, queue, running, futures, asc_started, asc_pre,
           asc_waiter, collected, res_successful, res_failed, detailed_results,
           started, summary>>

\* ---------------------------- the state of the registration processor
VARIABLE registration
r_env == registration.env    \* what the constructor of the engine finds on the machine
r_pc == registration.pc      \* position: unused, fresh, constructed, config_error,
                             \* items, returned, raised
r_dirs == registration.dirs  \* patient directories still to be visited (line 292)
r_results == registration.results
                             \* the results dict of PranavBatchProcessor.execute
r_error_rows == registration.error_rows
                             \* the patients of the rows of registration_errors.csv
r_calls == registration.calls
                             \* the runs of the external executables:
                             \* <<patient, executable, how it ended>>

rvars == registration

\* ------------------------------------- the state of patient discovery
VARIABLE discovery
d_pc == discovery.pc         \* position: unused, scanning, returned
d_pos == discovery.pos       \* how many entries of the base directory were visited
d_entry == discovery.entry   \* the entry visited last (patient_dir of line 77)
d_patients == discovery.patients
                             \* the local list patients of line 74
d_result == discovery.result \* the dict returned at lines 121-124

dvars == discovery

\* ---------------------------------- the state of the standardizers
VARIABLE standardizers
s_pc == standardizers.pc     \* unused, or active: standardizer objects exist
models == standardizers.models
                             \* the standardizer objects (two of the same class
                             \* and constructor arguments)
param_file == standardizers.param_file
                             \* the parameter file written by save_parameters
ops == standardizers.ops     \* the calls made on the objects so far: method,
                             \* object, argument, how it ended, the object
                             \* before and after

svars == standardizers

\* ------------------- a pipeline object that is executed more than once
VARIABLE rerun           \* the fields of the BasePipeline object, its steps
                         \* and its results dict

\* ------------------------ one run of the PreprocessingPipeline of a patient
VARIABLE prun            \* the run, and what _process_single_patient does
                         \* around it

xvars == <<rerun, prun>>

\* the components outside the engine and the batch layer
ovars == <<rvars, dvars, svars, xvars>>

vars == <<evars, bvars, ovars>>

\* ------------------------------------------------------- contexts (dicts)
\* A context maps every key either to Absent or to the producer of its
\* value: 0 for a value of the caller, i for a value returned by step i
\* (1-based position in self.steps).
Absent == -1

KeySet(ctx) == {k \in Keys : ctx[k] # Absent}

\* the keys a caller may pass
InputKeys == {"t2w_image"}

\* the input mappings of the model
Contexts ==
    {d \in [Keys -> {Absent, 0}] : \A k \in Keys \ InputKeys : d[k] = Absent}

\* dict.copy(): a new dict with the same items
DictCopy(d) == [k \in Keys |-> d[k]]

\* the caller's mapping and current_data are two objects (input_data.copy())
CopyIsFresh == TRUE

\* (mutation: update replaces the dict by the result)
DictUpdate_Replace(d, res, producer) ==
    [k \in Keys |-> IF k \in res THEN producer ELSE Absent]

\* dict.update(step_result): keys of the result are added or overwritten
DictUpdate(d, res, producer) ==
    [k \in Keys |-> IF k \in res THEN producer ELSE d[k]]

\* `if step_result: current_data.update(step_result)`
MergeResult(d, res, producer) ==
    IF res # {} THEN DictUpdate(d, res, producer) ELSE d

\* ------------------------------------------------------------ records
NoEntry == [status |-> "none", result |-> {}, error |-> FALSE]

SuccessEntry(res) == [status |-> "success", result |-> res, error |-> FALSE]

\* (mutation: the handler records the failed step as a success)
FailedEntry_AsSuccess == [status |-> "success", result |-> {}, error |-> TRUE]

FailedEntry == [status |-> "failed", result |-> {}, error |-> TRUE]

StepNames == 1..MaxSteps

\* ------------------------------------------------------------- Init
\* BasePipeline.__init__
EngineIdle ==
    /\ steps = <<>>
    /\ stepStatus = <<>>
    /\ status = "initialized"
    /\ continue_on_error = FALSE
    /\ current_step_index = 0
    /\ input_data = [k \in Keys |-> Absent]
    /\ current_data = [k \in Keys |-> Absent]
    /\ step_results = [n \in StepNames |-> NoEntry]
    /\ steps_executed = <<>>
    /\ errors = <<>>
    /\ results_error = FALSE
    /\ meta_status = "unset"
    /\ pc = "idle"
    /\ raising = FALSE
    /\ outcome = "none"
    /\ calls = <<>>

NoStandardizer == [exists |-> FALSE, trained |-> FALSE, trains |-> 0]

NoSummary == [written |-> FALSE, total |-> 0, successful |-> 0, failed |-> 0, rows |-> 0]

\* the run state of a batch pipeline that has not been executed
BatchFresh ==
    /\ b_coe = FALSE
    /\ b_ctx = {}
    /\ b_stepStatus = [k \in 1..4 |-> "pending"]
    /\ b_raising = FALSE
    /\ b_status = "initialized"
    /\ b_outcome = "none"
    /\ patients = <<>>
    /\ fate = <<>>
    /\ std = NoStandardizer
    /\ std_at_fanout = NoStandardizer
    /\ mode = "none"
    /\ queue = <<>>
    /\ running = {}
    /\ futures = <<>>
    /\ asc_started = FALSE
    /\ asc_pre = {}
    /\ asc_waiter = <<>>
    /\ collected = {}
    /\ res_successful = <<>>
    /\ res_failed = <<>>
    /\ detailed_results = <<>>
    /\ started = <<>>
    /\ summary = NoSummary

\* no batch pipeline exists
BatchUnused ==
    /\ b_method = "zscore"
    /\ b_parallel = FALSE
    /\ b_max_workers = 1
    /\ b_pc = "unused"
    /\ BatchFresh

\* the machine as PranavRegistrationEngine.__init__ finds it:
\*   install  the installation path is given by the caller, found among the
\*            common paths (lines 50-71) or not found
\*   elastix  what running `elastix --help` at the resolved path does
\*   rigid    the parameter file: a given path that exists, a given path that
\*            does not exist, found in the search paths, or not found
Installs == {"given", "found", "not_found"}
ElastixStates == {"works", "missing", "not_executable", "hangs", "broken"}
RigidStates == {"given_exists", "given_missing", "found", "not_found"}
Environments == [install : Installs, elastix : ElastixStates, rigid : RigidStates]

\* the results dict of lines 276-282
NoResults ==
    [total_patients |-> 0, successful |-> <<>>, failed |-> <<>>,
     detailed_results |-> <<>>]

RegFresh(env, at) ==
    [env |-> env, pc |-> at, dirs |-> <<>>, results |-> NoResults,
     error_rows |-> <<>>, calls |-> <<>>]

\* no registration processor exists
RegUnused == registration = [pc |-> "unused"]

\* a file name of a patient directory, cut into the pieces the patterns
\* look at; the extension .nii.gz, which all of them have, is left out.
\* "id" is the name of the directory itself, "x" is any other prefix.
Names ==
    {<<"id", "_", "t2", "w">>, <<"x", "_", "t2", "w">>, <<"x", "_", "T2", "W">>,
     <<"x", "_", "t2">>,
     <<"id", "_", "adc">>, <<"x", "_", "adc">>, <<"x", "_", "ADC">>}

\* an entry of the base directory: a directory or not, its name dot-prefixed
\* or not, and the files in it
DirEntries == [is_dir : {TRUE}, hidden : BOOLEAN, files : SUBSET Names]
FileEntries == [is_dir : {FALSE}, hidden : BOOLEAN, files : {{}}]
Entries == DirEntries \cup FileEntries

NoEntryYet == [is_dir |-> FALSE, hidden |-> FALSE, files |-> {}]
NoDiscoveryResult == [returned |-> FALSE, patients |-> <<>>, total_patients |-> 0]

DiscFresh(at) ==
    [pc |-> at, pos |-> 0, entry |-> NoEntryYet, patients |-> <<>>,
     result |-> NoDiscoveryResult]

\* no discovery step is run
DiscUnused == discovery = [pc |-> "unused"]

\* ----------------------------------------------- standardizer objects
\* a float attribute: None, nan, or a number written as a fraction
\* num / den; tag says what the fraction stands for
NoNumber == [t |-> "None", num |-> 0, den |-> 1]
NaN == [t |-> "nan", num |-> 0, den |-> 1]
Number(tag, num, den) == [t |-> tag, num |-> num, den |-> den]

\* an array attribute: None, the scalar nan, or an array of fractions with
\* the common denominator den; averaged holds the indexes whose value is
\* still the one averaged from the training images (its number is not
\* modelled)
NoArray == [t |-> "None", num |-> <<>>, den |-> 1, averaged |-> {}]
NaNScalar == [t |-> "nan", num |-> <<>>, den |-> 1, averaged |-> {}]

\* self.parameters = {} (intensity_standardizer.py line 20); keys is the
\* set of keys of the dict
NoParameters ==
    [keys |-> {}, standard_landmarks |-> NoArray, landmarks_percentage |-> <<>>,
     global_mean |-> NoNumber, global_std |-> NoNumber, use_robust |-> FALSE]

\* landmarks_percentage with n entries, evenly spaced from 0 to 100
Percentiles(n) == [i \in 1..n |-> IF n = 1 THEN 50 ELSE ((i - 1) * 100) \div (n - 1)]

\* NyulStandardizer.__init__ and ZScoreStandardizer.__init__
NewNyul(n, scale) ==
    [kind |-> "nyul", landmarks_percentage |-> Percentiles(n),
     standard_scale |-> scale, use_robust_statistics |-> FALSE,
     trained |-> FALSE, parameters |-> NoParameters,
     standard_landmarks |-> NoArray,
     global_mean |-> NoNumber, global_std |-> NoNumber]
NewZScore(robust) ==
    [kind |-> "zscore", landmarks_percentage |-> <<>>,
     standard_scale |-> <<0, 0>>, use_robust_statistics |-> robust,
     trained |-> FALSE, parameters |-> NoParameters,
     standard_landmarks |-> NoArray,
     global_mean |-> NoNumber, global_std |-> NoNumber]

\* the target ranges and the constructor arguments of the model
Scales == {<<0, 100>>, <<10, 20>>}
NewModels ==
    {NewNyul(n, sc) : n \in 1..MaxLandmarks, sc \in Scales}
        \cup {NewZScore(r) : r \in BOOLEAN}

\* no parameter file has been written
NoFile == [written |-> FALSE, json |-> NoParameters]

StdFresh(at, objects) ==
    [pc |-> at, models |-> objects, param_file |-> NoFile, ops |-> <<>>]

\* no standardizer object is looked at
StdUnused == standardizers = [pc |-> "unused"]

\* no pipeline object is executed again, no patient run is looked at
RerunUnused == rerun = [pc |-> "unused"]
ItemUnused == prun = [pc |-> "unused"]
ExtraUnused == RerunUnused /\ ItemUnused

OthersUnused == RegUnused /\ DiscUnused /\ StdUnused /\ ExtraUnused

Init == EngineIdle /\ BatchUnused /\ OthersUnused

\* ------------------------------------------------------------ add_step
\* A new step takes a fresh name or the name of the first step.
add_step(name) ==
    /\ pc = "idle"
    /\ status = "initialized"
    /\ Len(steps) < MaxSteps
    /\ name \in {1, Len(steps) + 1}
    /\ steps' = Append(steps, name)
    /\ stepStatus' = Append(stepStatus, "pending")
    /\ UNCHANGED <<status, continue_on_error, current_step_index, input_data,
                   current_data, step_results, steps_executed, errors,
                   results_error, meta_status, pc, raising, outcome, calls>>
    /\ UNCHANGED <<bvars, ovars>>

\* --------------------------------------------------- execute, lines 83-100
Execute_Begin(inp, coe) ==
    /\ pc = "idle"
    /\ status = "initialized"
    /\ continue_on_error' = coe
    /\ status' = "running"
    /\ current_step_index' = 0
    /\ input_data' = inp
    /\ current_data' = DictCopy(inp)
    /\ step_results' = [n \in StepNames |-> NoEntry]
    /\ steps_executed' = <<>>
    /\ results_error' = FALSE
    /\ meta_status' = "unset"
    /\ raising' = FALSE
    /\ outcome' = "none"
    /\ calls' = <<>>
    /\ pc' = IF Len(steps) = 0 THEN "finish" ELSE "validate"
    /\ UNCHANGED <<steps, stepStatus, errors>>
    /\ UNCHANGED <<bvars, ovars>>

\* ------------------------------------------------- lines 140-164 (handler)
\* (mutations: the handler never re-raises; the handler always re-raises)
AbortOnFailure_Never(coe) == FALSE

AbortOnFailure_Always(coe) == TRUE

\* `if not self.continue_on_error: raise`
AbortOnFailure(coe) == ~coe

ErrorInfo(name, idx, etype) ==
    [step_name |-> name, step_index |-> idx, error_type |-> etype]

\* (mutation: the handler fills the missing keys of the context)
FailedStepContext_Filled(d) == [k \in Keys |-> IF d[k] = Absent THEN 0 ELSE d[k]]

\* current_data after the handler: nothing of the failed step is merged
FailedStepContext(d) == d

\* (mutation: a re-raise of the handler bypasses the cleanup)
AfterHandler_SkipOnRaise(reraised) == IF reraised THEN "finish" ELSE "cleanup"

\* where control goes after the handler: the finally clause (line 166) runs
\* whether or not the handler re-raised
AfterHandler(reraised) == "cleanup"

\* the except branch of the inner try, for the step at position i (1-based)
HandleFailure(i, etype) ==
    /\ stepStatus' = [stepStatus EXCEPT ![i] = "failed"]
    /\ errors' = Append(errors, ErrorInfo(steps[i], i - 1, etype))
    /\ step_results' = [step_results EXCEPT ![steps[i]] = FailedEntry]
    /\ raising' = AbortOnFailure(continue_on_error)
    /\ pc' = AfterHandler(AbortOnFailure(continue_on_error))
    /\ current_data' = FailedStepContext(current_data)
    /\ UNCHANGED <<input_data, steps_executed>>

\* (mutation: a false return value of validate_inputs is ignored)
ValidationFails_OnlyRaise(v) == v = "raise"

\* `if not step.validate_inputs(current_data): raise ValueError(...)`, and
\* an exception of validate_inputs itself
ValidationFails(v) == v # "true"

\* --------------------------------------------------- lines 104-114
\* v is what step.validate_inputs(current_data) does
Step_Validate(v) ==
    /\ pc = "validate"
    /\ LET i == current_step_index + 1 IN
       /\ calls' = Append(calls, <<"validate", i, v, current_data>>)
       /\ IF ~ValidationFails(v)
          THEN /\ stepStatus' = [stepStatus EXCEPT ![i] = "running"]
               /\ pc' = "execute"
               /\ UNCHANGED <<errors, step_results, raising, current_data,
                              input_data, steps_executed>>
          ELSE HandleFailure(i, IF v = "false" THEN "ValueError" ELSE "Exception")
    /\ UNCHANGED <<steps, status, continue_on_error, current_step_index,
                   results_error, meta_status, outcome>>
    /\ UNCHANGED <<bvars, ovars>>

\* --------------------------------------------------- lines 117-138
\* r is what step.execute(current_data) does: r.exc if it raises, otherwise
\* r.keys is the key set of the dict it returns
Step_Execute(r) ==
    /\ pc = "execute"
    /\ LET i == current_step_index + 1 IN
       /\ calls' = Append(calls, <<"execute", i, IF r.exc THEN "raise" ELSE "ok",
                                   current_data>>)
       /\ IF r.exc
          THEN HandleFailure(i, "Exception")
          ELSE /\ current_data' = MergeResult(current_data, r.keys, i)
               /\ input_data' = IF CopyIsFresh THEN input_data
                                ELSE MergeResult(input_data, r.keys, i)
               /\ stepStatus' = [stepStatus EXCEPT ![i] = "completed"]
               /\ step_results' = [step_results EXCEPT ![steps[i]] = SuccessEntry(r.keys)]
               /\ steps_executed' = Append(steps_executed,
                                           [name |-> steps[i], index |-> i - 1])
               /\ pc' = "cleanup"
               /\ UNCHANGED <<errors, raising>>
    /\ UNCHANGED <<steps, status, continue_on_error, current_step_index,
                   results_error, meta_status, outcome>>
    /\ UNCHANGED <<bvars, ovars>>

\* --------------------------------------------------- lines 166-171
\* (mutation: an exception of cleanup propagates)
CleanupEscalates_Propagate(c) == c = "raise"

\* an Exception of step.cleanup() is caught and logged
CleanupEscalates(c) == FALSE

\* (mutation: the loop skips a step)
NextIndex_Skip(idx) == idx + 2

\* the position of the step the for loop visits after position idx
NextIndex(idx) == idx + 1

\* c is what step.cleanup() does
Step_Cleanup(c) ==
    /\ pc = "cleanup"
    /\ LET i == current_step_index + 1 IN
       /\ calls' = Append(calls, <<"cleanup", i, c, current_data>>)
       /\ raising' = (raising \/ CleanupEscalates(c))
       /\ IF raising \/ CleanupEscalates(c)
          THEN /\ pc' = "finish"
               /\ UNCHANGED current_step_index
          ELSE IF NextIndex(current_step_index) < Len(steps)
               THEN /\ pc' = "validate"
                    /\ current_step_index' = NextIndex(current_step_index)
               ELSE /\ pc' = "finish"
                    /\ UNCHANGED current_step_index
    /\ UNCHANGED <<steps, stepStatus, status, continue_on_error, input_data,
                   current_data, step_results, steps_executed, errors,
                   results_error, meta_status, outcome>>
    /\ UNCHANGED <<bvars, ovars>>

\* --------------------------------------------------- lines 173-194
\* self.status after the loop: line 174 or line 179
FinalStatus(exc) == IF exc THEN "failed" ELSE "completed"

Execute_End ==
    /\ pc = "finish"
    /\ status' = FinalStatus(raising)
    /\ results_error' = raising
    /\ meta_status' = FinalStatus(raising)
    /\ outcome' = IF raising THEN "raised" ELSE "returned"
    /\ raising' = FALSE
    /\ pc' = "idle"
    /\ UNCHANGED <<steps, stepStatus, continue_on_error, current_step_index,
                   input_data, current_data, step_results, steps_executed,
                   errors, calls>>
    /\ UNCHANGED <<bvars, ovars>>

\* ------------------------------------------------------------- Next
ValidateOutcomes == {"true", "false", "raise"}
ExecuteOutcomes ==
    {[exc |-> TRUE, keys |-> {}]} \cup [exc : {FALSE}, keys : SUBSET Keys]
CleanupOutcomes == {"ok", "raise"}

Next ==
    \/ \E name \in StepNames : add_step(name)
    \/ \E inp \in Contexts, coe \in BOOLEAN : Execute_Begin(inp, coe)
    \/ \E v \in ValidateOutcomes : Step_Validate(v)
    \/ \E r \in ExecuteOutcomes : Step_Execute(r)
    \/ \E c \in CleanupOutcomes : Step_Cleanup(c)
    \/ Execute_End

Spec == Init /\ [][Next]_vars

TypeOK ==
    /\ Len(steps) <= MaxSteps
    /\ Len(stepStatus) = Len(steps)
    /\ status \in {"initialized", "running", "completed", "failed"}
    /\ pc \in {"idle", "validate", "execute", "cleanup", "finish"}
    /\ current_step_index \in 0..MaxSteps

\* =================================================================
\* The batch layer: batch_preprocessing.py
\* =================================================================
\* BatchPreprocessingPipeline.__init__ adds four steps, in this order
DiscoveryStep == 1
TrainingStep == 2
ProcessingStep == 3
ReportingStep == 4

\* what processing a patient does:
\*   ok               every call succeeds
\*   fail_in_try      a call inside the try block of _process_single_patient
\*                    raises (reading an image, a step of the patient's run)
\*   fail_before_try  creating the patient's output directory raises
Fates == {"ok", "fail_in_try", "fail_before_try"}

PatientIds == 1..MaxPatients

\* the keys of the caller's input (examples/batch_preprocessing.py,
\* UnifiedBatchPipeline.process_all_patients)
BatchInputKeys == {"base_directory", "output_directory"}

\* BatchPreprocessingPipeline.__init__: the arguments of the constructor
BatchInit ==
    /\ EngineIdle
    /\ b_method \in {"nyul", "zscore"}
    /\ b_parallel \in BOOLEAN
    /\ b_max_workers \in 1..MaxWorkers
    /\ b_pc = "init"
    /\ BatchFresh
    /\ OthersUnused

\* BasePipeline.execute, lines 83-100, for the batch pipeline
BatchExecute_Begin(coe) ==
    /\ b_pc = "init"
    /\ b_coe' = coe
    /\ b_status' = "running"
    /\ b_ctx' = BatchInputKeys
    /\ b_pc' = "discovery"
    /\ UNCHANGED <<b_method, b_parallel, b_max_workers, b_stepStatus, b_raising,
                   b_outcome, patients, fate, std, std_at_fanout, mode, queue,
                   running, futures, asc_started, asc_pre, asc_waiter, collected,
                   res_successful, res_failed, detailed_results, started, summary>>
    /\ UNCHANGED <<evars, ovars>>

\* the phase in which the engine runs step k
PhaseOf(k) ==
    CASE k = DiscoveryStep -> "discovery"
      [] k = TrainingStep -> "training"
      [] k = ProcessingStep -> "processing"
      [] k = ReportingStep -> "reporting"
      [] OTHER -> "finish"

\* BasePipeline.execute, lines 119-138, for step k of the batch pipeline:
\* the returned keys are merged and the loop goes on
StepSucceeds(k, keys) ==
    /\ b_ctx' = b_ctx \cup keys
    /\ b_stepStatus' = [b_stepStatus EXCEPT ![k] = "completed"]
    /\ b_pc' = PhaseOf(k + 1)
    /\ UNCHANGED b_raising

\* BasePipeline.execute, lines 140-164, for step k of the batch pipeline
StepFails(k) ==
    /\ b_stepStatus' = [b_stepStatus EXCEPT ![k] = "failed"]
    /\ b_raising' = AbortOnFailure(b_coe)
    /\ b_pc' = IF AbortOnFailure(b_coe) THEN "finish" ELSE PhaseOf(k + 1)
    /\ UNCHANGED b_ctx

\* PatientDiscoveryStep.execute: n complete patient directories are found,
\* or scanning the base directory raises
PatientDiscovery(n, f, ok) ==
    /\ b_pc = "discovery"
    /\ IF ok
       THEN /\ patients' = [i \in 1..n |-> i]
            /\ fate' = f
            /\ StepSucceeds(DiscoveryStep, {"patients", "total_patients"})
       ELSE /\ n = 0 /\ f = <<>>
            /\ UNCHANGED <<patients, fate>>
            /\ StepFails(DiscoveryStep)
    /\ UNCHANGED <<b_method, b_parallel, b_max_workers, b_coe, b_status,
                   b_outcome, std, std_at_fanout, mode, queue, running, futures,
                   asc_started, asc_pre, asc_waiter, collected, res_successful,
                   res_failed, detailed_results, started, summary>>
    /\ UNCHANGED <<evars, ovars>>

\* NyulStandardizer.train sets the landmarks, the parameters and the flag
Trained(s) == [exists |-> TRUE, trained |-> TRUE, trains |-> s.trains + 1]

\* BatchStandardizationStep.execute.  t says whether loading, training and
\* saving succeed; NyulStandardizer.train raises on an empty image list.
BatchStandardization(t) ==
    /\ b_pc = "training"
    /\ IF "patients" \notin b_ctx \/ t = "raise"
          \/ (b_method = "nyul" /\ Len(patients) = 0)
       THEN /\ StepFails(TrainingStep)
            /\ UNCHANGED std
       ELSE IF b_method = "nyul"
            THEN /\ std' = Trained(std)
                 /\ StepSucceeds(TrainingStep,
                        {"t2w_standardizer", "standardization_trained",
                         "training_samples"})
            ELSE /\ UNCHANGED std
                 /\ StepSucceeds(TrainingStep, {"standardization_trained"})
    /\ UNCHANGED <<b_method, b_parallel, b_max_workers, b_coe, b_status,
                   b_outcome, patients, fate, std_at_fanout, mode, queue,
                   running, futures, asc_started, asc_pre, asc_waiter,
                   collected, res_successful, res_failed, detailed_results,
                   started, summary>>
    /\ UNCHANGED <<evars, ovars>>

\* -------------------------------------------- BatchProcessingStep.execute
\* the variables of the batch layer other than those of the fan-out
BatchConfig == <<b_method, b_parallel, b_max_workers, b_coe, b_status,
                 b_outcome, patients, fate, summary>>

\* data.get('t2w_standardizer'), line 199: the shared standardizer, if any
SharedStandardizer == "t2w_standardizer" \in b_ctx

\* line 217: the concurrent branch is taken iff parallel and more than one
\* patient (max_workers has no part in the choice)
ModeOf(par, n) == IF par /\ n > 1 THEN "concurrent" ELSE "sequential"

\* lines 195-225: the patient list is read, the results are initialised and,
\* in the concurrent branch, every patient is submitted to the executor.
\* Reading data['patients'] raises if discovery did not produce it.
BatchProcessing_Begin ==
    /\ b_pc = "processing"
    /\ IF "patients" \notin b_ctx
       THEN /\ StepFails(ProcessingStep)
            /\ UNCHANGED <<std_at_fanout, mode, queue, futures>>
       ELSE /\ mode' = ModeOf(b_parallel, Len(patients))
            /\ queue' = patients
            /\ futures' = [i \in 1..Len(patients) |-> "pending"]
            /\ std_at_fanout' = std
            /\ b_pc' = "fanout"
            /\ UNCHANGED <<b_ctx, b_stepStatus, b_raising>>
    /\ UNCHANGED <<BatchConfig, std, running, asc_started, asc_pre, asc_waiter,
                   collected, res_successful, res_failed, detailed_results,
                   started>>
    /\ UNCHANGED <<evars, ovars>>

\* (mutation: a worker thread is created for every submitted item)
WorkerFree_Unbounded(busy, W) == TRUE

\* ThreadPoolExecutor: at most max_workers threads take items off the queue
WorkerFree(busy, W) == Cardinality(busy) < W

\* a worker thread takes the oldest item of the work queue and calls
\* process_patient on it
W_Start ==
    /\ b_pc = "fanout" /\ mode = "concurrent"
    /\ queue # <<>>
    /\ WorkerFree(running, b_max_workers)
    /\ running' = running \cup {Head(queue)}
    /\ started' = Append(started, Head(queue))
    /\ futures' = [futures EXCEPT ![Head(queue)] = "running"]
    /\ queue' = Tail(queue)
    /\ UNCHANGED <<BatchConfig, b_pc, b_ctx, b_stepStatus, b_raising, std,
                   std_at_fanout, mode, asc_started, asc_pre, asc_waiter,
                   collected, res_successful, res_failed, detailed_results>>
    /\ UNCHANGED <<evars, ovars>>

\* _process_single_patient, lines 279-349: what the call leaves in the future
\* (or, in the sequential branch, hands to the loop)
ResultOf(f) ==
    CASE f = "ok" -> "returned_success"
      [] f = "fail_in_try" -> "returned_failure"
      [] OTHER -> "raised"

\* (mutation: the per-patient run retrains the standardizer it was given)
NeedsTraining_Always(s) == TRUE

\* StandardizationStep.execute, line 66: train only an untrained standardizer
NeedsTraining(s) == ~s.trained

\* the standardizer after a patient's run that got as far as its
\* StandardizationStep (lines 296-305 and StandardizationStep.execute);
\* NyulStandardizer.transform only reads the standardizer
AfterRun(s, f) ==
    IF SharedStandardizer /\ f # "fail_before_try" /\ NeedsTraining(s)
    THEN Trained(s)
    ELSE s

\* (mutation: a worker whose call raised is lost to the pool)
WorkerReleased_UnlessRaised(busy, id, res) ==
    IF res = "raised" THEN busy ELSE busy \ {id}

\* the worker thread stores the result or the exception in the future and
\* goes back to the work queue
WorkerReleased(busy, id, res) == busy \ {id}

\* process_patient ends in a worker thread; a waiter installed by
\* as_completed is told about the finished future
W_Finish(id) ==
    /\ b_pc = "fanout" /\ mode = "concurrent"
    /\ id \in running /\ futures[id] = "running"
    /\ running' = WorkerReleased(running, id, ResultOf(fate[id]))
    /\ futures' = [futures EXCEPT ![id] = ResultOf(fate[id])]
    /\ std' = AfterRun(std, fate[id])
    /\ asc_waiter' = IF asc_started THEN Append(asc_waiter, id) ELSE asc_waiter
    /\ UNCHANGED <<BatchConfig, b_pc, b_ctx, b_stepStatus, b_raising,
                   std_at_fanout, mode, queue, asc_started, asc_pre, collected,
                   res_successful, res_failed, detailed_results, started>>
    /\ UNCHANGED <<evars, ovars>>

Finished(fs) == {i \in DOMAIN fs : fs[i] \in {"returned_success", "returned_failure", "raised"}}

\* concurrent.futures.as_completed is entered (line 229): the futures that
\* are finished by now are set apart, a waiter is installed on the others
AsCompleted_Begin ==
    /\ b_pc = "fanout" /\ mode = "concurrent"
    /\ ~asc_started
    /\ asc_started' = TRUE
    /\ asc_pre' = Finished(futures)
    /\ UNCHANGED <<BatchConfig, b_pc, b_ctx, b_stepStatus, b_raising, std,
                   std_at_fanout, mode, queue, running, futures, asc_waiter,
                   collected, res_successful, res_failed, detailed_results,
                   started>>
    /\ UNCHANGED <<evars, ovars>>

\* (mutation: an exception of future.result() escapes the loop)
CaughtByLoop_OnlyReturns(res) == res # "raised"

\* lines 238 and 258: `except Exception` around the call and the bookkeeping
CaughtByLoop(res) == TRUE

\* (mutation: a success is appended twice)
RecordSuccessful_Twice(lst, id) == Append(Append(lst, id), id)

\* lines 234 and 254
RecordSuccessful(lst, id) == Append(lst, id)

\* (mutation: a failure outcome is not appended to 'failed')
RecordFailed_Dropped(lst, id) == lst

\* lines 236, 240, 256, 260
RecordFailed(lst, id) == Append(lst, id)

\* the entry of detailed_results: the returned record, or the record the
\* except clause builds (it has no error_type)
DetailOf(res) ==
    CASE res = "returned_success" -> "success"
      [] res = "returned_failure" -> "failure_with_type"
      [] OTHER -> "failure_without_type"

\* lines 231-244 and 251-264: the bookkeeping for one patient
Record(id, res) ==
    /\ res_successful' = IF res = "returned_success"
                         THEN RecordSuccessful(res_successful, id)
                         ELSE res_successful
    /\ res_failed' = IF res = "returned_success"
                     THEN res_failed ELSE RecordFailed(res_failed, id)
    /\ detailed_results' = detailed_results @@ (id :> DetailOf(res))

\* an exception that leaves BatchProcessingStep.execute fails the step
LoopBroken ==
    /\ StepFails(ProcessingStep)
    /\ UNCHANGED <<res_successful, res_failed, detailed_results>>

\* the futures as_completed may yield next: those finished at its entry in
\* the order of a set of objects (any order), then the others in the order
\* in which they finish
NextYield ==
    IF asc_pre \ collected # {}
    THEN asc_pre \ collected
    ELSE IF asc_waiter # <<>> THEN {Head(asc_waiter)} ELSE {}

\* one iteration of the loop of line 229
Collect(id) ==
    /\ b_pc = "fanout" /\ mode = "concurrent"
    /\ asc_started
    /\ id \in NextYield
    /\ collected' = collected \cup {id}
    /\ asc_waiter' = IF id \in asc_pre THEN asc_waiter ELSE Tail(asc_waiter)
    /\ IF CaughtByLoop(futures[id])
       THEN /\ Record(id, futures[id])
            /\ UNCHANGED <<b_pc, b_ctx, b_stepStatus, b_raising>>
       ELSE LoopBroken
    /\ UNCHANGED <<BatchConfig, std, std_at_fanout, mode, queue, running,
                   futures, asc_started, asc_pre, started>>
    /\ UNCHANGED <<evars, ovars>>

\* the sequential branch, line 250-252: the loop calls process_patient on the
\* next patient of the list
Seq_Call ==
    /\ b_pc = "fanout" /\ mode = "sequential"
    /\ running = {} /\ queue # <<>>
    /\ running' = {Head(queue)}
    /\ started' = Append(started, Head(queue))
    /\ futures' = [futures EXCEPT ![Head(queue)] = "running"]
    /\ queue' = Tail(queue)
    /\ UNCHANGED <<BatchConfig, b_pc, b_ctx, b_stepStatus, b_raising, std,
                   std_at_fanout, mode, asc_started, asc_pre, asc_waiter,
                   collected, res_successful, res_failed, detailed_results>>
    /\ UNCHANGED <<evars, ovars>>

\* the sequential branch, lines 252-264: the call ends and is recorded
Seq_Record(id) ==
    /\ b_pc = "fanout" /\ mode = "sequential"
    /\ id \in running
    /\ running' = {}
    /\ futures' = [futures EXCEPT ![id] = ResultOf(fate[id])]
    /\ std' = AfterRun(std, fate[id])
    /\ collected' = collected \cup {id}
    /\ IF CaughtByLoop(ResultOf(fate[id]))
       THEN /\ Record(id, ResultOf(fate[id]))
            /\ UNCHANGED <<b_pc, b_ctx, b_stepStatus, b_raising>>
       ELSE LoopBroken
    /\ UNCHANGED <<BatchConfig, std_at_fanout, mode, queue, asc_started,
                   asc_pre, asc_waiter, started>>
    /\ UNCHANGED <<evars, ovars>>

\* the loop of the taken branch is exhausted
LoopDone ==
    IF mode = "concurrent"
    THEN asc_started /\ collected = DOMAIN futures
    ELSE queue = <<>> /\ running = {}

\* lines 266-270: the executor is shut down (all its work is done) and the
\* results are returned; the engine merges them into the context
BatchProcessing_End ==
    /\ b_pc = "fanout"
    /\ LoopDone
    /\ StepSucceeds(ProcessingStep, {"successful", "failed", "detailed_results"})
    /\ UNCHANGED <<BatchConfig, std, std_at_fanout, mode, queue, running,
                   futures, asc_started, asc_pre, asc_waiter, collected,
                   res_successful, res_failed, detailed_results, started>>
    /\ UNCHANGED <<evars, ovars>>

\* -------------------------------------------- BatchReportingStep.execute
\* line 364: data.get('BatchProcessingStep', {}).  The engine merges the
\* dict a step returns key by key (current_data.update, line 121 of
\* base_pipeline.py); it stores nothing under the name of the step.
HasBatchResults == "BatchProcessingStep" \in b_ctx

\* lines 371-403: the summary and the table of the report
SummaryOf(total) ==
    [written |-> TRUE,
     total |-> total,
     successful |-> IF HasBatchResults THEN Len(res_successful) ELSE 0,
     failed |-> IF HasBatchResults THEN Len(res_failed) ELSE 0,
     rows |-> IF HasBatchResults THEN Cardinality(DOMAIN detailed_results) ELSE 0]

\* BatchReportingStep.execute.  r = "raise": creating the reports directory
\* raises (line 368); reading data['total_patients'] raises if discovery
\* did not produce it (line 374).
BatchReporting(r) ==
    /\ b_pc = "reporting"
    /\ IF r = "raise" \/ "total_patients" \notin b_ctx
       THEN /\ StepFails(ReportingStep)
            /\ UNCHANGED summary
       ELSE /\ summary' = SummaryOf(Len(patients))
            /\ StepSucceeds(ReportingStep,
                   {"summary_path", "csv_path", "reports_directory"})
    /\ UNCHANGED <<b_method, b_parallel, b_max_workers, b_coe, b_status,
                   b_outcome, patients, fate, std, std_at_fanout, mode, queue,
                   running, futures, asc_started, asc_pre, asc_waiter,
                   collected, res_successful, res_failed, detailed_results,
                   started>>
    /\ UNCHANGED <<evars, ovars>>

\* BasePipeline.execute, lines 173-194, for the batch pipeline
BatchExecute_End ==
    /\ b_pc = "finish"
    /\ b_status' = FinalStatus(b_raising)
    /\ b_outcome' = IF b_raising THEN "raised" ELSE "returned"
    /\ b_pc' = "done"
    /\ UNCHANGED <<b_method, b_parallel, b_max_workers, b_coe, b_ctx,
                   b_stepStatus, b_raising, patients, fate, std, std_at_fanout,
                   mode, queue, running, futures, asc_started, asc_pre,
                   asc_waiter, collected, res_successful, res_failed,
                   detailed_results, started, summary>>
    /\ UNCHANGED <<evars, ovars>>

TrainingOutcomes == {"ok", "raise"}
ReportingOutcomes == {"ok", "raise"}

\* the steps of the worker threads and of the loop that collects them
FanOut ==
    \/ W_Start
    \/ \E id \in PatientIds : W_Finish(id)
    \/ AsCompleted_Begin
    \/ \E id \in PatientIds : Collect(id)
    \/ Seq_Call
    \/ \E id \in PatientIds : Seq_Record(id)
    \/ BatchProcessing_End

NextBatch ==
    \/ \E coe \in BOOLEAN : BatchExecute_Begin(coe)
    \/ \E n \in 0..MaxPatients, ok \in BOOLEAN :
          \E f \in [1..n -> Fates] : PatientDiscovery(n, f, ok)
    \/ \E t \in TrainingOutcomes : BatchStandardization(t)
    \/ BatchProcessing_Begin
    \/ FanOut
    \/ \E r \in ReportingOutcomes : BatchReporting(r)
    \/ BatchExecute_End

SpecBatch == BatchInit /\ [][NextBatch]_vars

\* Every call of process_patient ends, and the threads of the pool and the
\* thread of the loop are scheduled.
SpecBatchFair == SpecBatch /\ WF_vars(FanOut)

BatchTypeOK ==
    /\ b_pc \in {"init", "discovery", "training", "processing", "fanout",
                 "reporting", "finish", "done"}
    /\ mode \in {"none", "concurrent", "sequential"}
    /\ Len(patients) <= MaxPatients
    /\ running \subseteq PatientIds
    /\ collected \subseteq PatientIds
    /\ b_status \in {"initialized", "running", "completed", "failed"}
    /\ b_outcome \in {"none", "returned", "raised"}

\* =================================================================
\* The registration processor: pranav_registration_pipeline.py
\* =================================================================
\* ProstateADCRegistrationPipeline.__init__ is about to build its
\* PranavBatchProcessor on a machine in some state
RegInit ==
    /\ EngineIdle
    /\ BatchUnused
    /\ \E env \in Environments : registration = RegFresh(env, "fresh")
    /\ DiscUnused
    /\ StdUnused
    /\ ExtraUnused

\* line 31, _setup_elastix_paths: a given installation path is taken as it
\* is; without one the common paths are searched and RuntimeError is raised
\* if none exists (line 74)
NoInstallation(env) == env.install = "not_found"

\* line 32: `rigid_params_path or self._find_rigid_params()`.  A given path
\* is taken as it is; only the search of _find_rigid_params can raise
\* FileNotFoundError (line 115)
NoRigidParams(env) == env.rigid = "not_found"

\* line 41, _verify_elastix_installation: RuntimeError unless
\* `elastix --help` runs and exits with status 0
ElastixUnusable(env) == env.elastix # "works"

\* PranavRegistrationEngine.__init__ raises
ConstructorRaises(env) ==
    NoInstallation(env) \/ NoRigidParams(env) \/ ElastixUnusable(env)

\* PranavBatchProcessor.__init__, lines 248-255
Reg_Construct ==
    /\ r_pc = "fresh"
    /\ registration' =
          [registration EXCEPT
              !.pc = IF ConstructorRaises(r_env) THEN "config_error" ELSE "constructed"]
    /\ UNCHANGED <<evars, bvars, dvars, svars, xvars>>

\* PranavBatchProcessor.execute, lines 262-290: the base directory is
\* listed, the results are initialised, the output directory and the error
\* CSV are created and the header row is written.  ok = FALSE: listing the
\* base directory or creating the output raises.
Reg_Scan(n, ok) ==
    /\ r_pc = "constructed"
    /\ IF ok
       THEN registration' =
                [registration EXCEPT
                    !.dirs = [i \in 1..n |-> i],
                    !.results = [NoResults EXCEPT !.total_patients = n],
                    !.error_rows = <<"header">>,
                    !.pc = "items"]
       ELSE /\ n = 0
            /\ registration' = [registration EXCEPT !.pc = "raised"]
    /\ UNCHANGED <<evars, bvars, dvars, svars, xvars>>

\* what visiting one patient directory meets:
\*   files        which of the two images exist (lines 297-312)
\*   mkdir        creating the patient's output directory works (line 138)
\*   elastix      how the registration executable ends (line 158)
\*   transformix  how the transform executable ends (line 181)
\*   result_file  result.nii.gz exists afterwards (line 197)
ToolOutcomes == {"ok", "nonzero", "timeout"}
Visit(files, mkdir, elastix, transformix, result_file) ==
    [files |-> files, mkdir |-> mkdir, elastix |-> elastix,
     transformix |-> transformix, result_file |-> result_file]

\* one visit for every path through lines 297-335 and 136-241
Visits ==
    {Visit("no_adc", TRUE, "ok", "ok", TRUE),
     Visit("no_t2w", TRUE, "ok", "ok", TRUE),
     Visit("both", FALSE, "ok", "ok", TRUE),
     Visit("both", TRUE, "nonzero", "ok", TRUE),
     Visit("both", TRUE, "timeout", "ok", TRUE),
     Visit("both", TRUE, "ok", "nonzero", TRUE),
     Visit("both", TRUE, "ok", "timeout", TRUE),
     Visit("both", TRUE, "ok", "ok", FALSE),
     Visit("both", TRUE, "ok", "ok", TRUE)}

\* the records register_adc_to_t2w returns (lines 210-218, 226-231, 236-241)
SuccessRecord == [success |-> TRUE, error |-> "", error_type |-> ""]
SubprocessError ==
    [success |-> FALSE, error |-> "Registration failed",
     error_type |-> "subprocess_error"]
UnexpectedError ==
    [success |-> FALSE, error |-> "Unexpected error",
     error_type |-> "unexpected_error"]

\* (mutation: the exit status of elastix is not looked at)
ElastixFailed_OnlyTimeout(e) == e = "timeout"

\* subprocess.run raises TimeoutExpired (line 158); a non-zero exit status
\* raises CalledProcessError (lines 166-169)
ElastixFailed(e) == e # "ok"

\* the handler that catches what a tool run raised: CalledProcessError at
\* line 223, anything else (TimeoutExpired) at line 233
FailureRecord(t) == IF t = "nonzero" THEN SubprocessError ELSE UnexpectedError

\* register_adc_to_t2w after its mkdir, lines 146-241: the runs of the
\* executables and the returned record
Register(id, v) ==
    IF ElastixFailed(v.elastix)
    THEN [calls |-> << <<id, "elastix", v.elastix>> >>,
          record |-> FailureRecord(v.elastix)]
    ELSE [calls |-> << <<id, "elastix", v.elastix>>,
                       <<id, "transformix", v.transformix>> >>,
          record |-> IF v.transformix # "ok" THEN FailureRecord(v.transformix)
                     ELSE IF ~v.result_file THEN UnexpectedError
                     ELSE SuccessRecord]

\* one iteration of the loop of line 292
Reg_Item(v) ==
    /\ r_pc = "items"
    /\ r_dirs # <<>>
    /\ LET id == Head(r_dirs)
           reg == Register(id, v)
       IN  registration' =
             IF v.files # "both"
             THEN [registration EXCEPT
                      !.results.failed = Append(@, id),
                      !.error_rows = Append(@, id),
                      !.dirs = Tail(@)]
             ELSE IF ~v.mkdir
             THEN [registration EXCEPT !.pc = "raised"]
             ELSE [registration EXCEPT
                      !.calls = @ \o reg.calls,
                      !.results.detailed_results = @ @@ (id :> reg.record),
                      !.results.successful = IF reg.record.success
                                             THEN Append(@, id) ELSE @,
                      !.results.failed = IF reg.record.success
                                         THEN @ ELSE Append(@, id),
                      !.error_rows = IF reg.record.success THEN @
                                     ELSE Append(@, id),
                      !.dirs = Tail(@)]
    /\ UNCHANGED <<evars, bvars, dvars, svars, xvars>>

\* lines 337-348: the summary is computed and the results are returned
Reg_Return ==
    /\ r_pc = "items"
    /\ r_dirs = <<>>
    /\ registration' = [registration EXCEPT !.pc = "returned"]
    /\ UNCHANGED <<evars, bvars, dvars, svars, xvars>>

NextReg ==
    \/ Reg_Construct
    \/ \E n \in 0..MaxPatients, ok \in BOOLEAN : Reg_Scan(n, ok)
    \/ \E v \in Visits : Reg_Item(v)
    \/ Reg_Return

SpecReg == RegInit /\ [][NextReg]_vars

RegTypeOK ==
    /\ r_env \in Environments
    /\ r_pc \in {"fresh", "constructed", "config_error", "items", "returned",
                 "raised"}
    /\ Len(r_dirs) <= MaxPatients
    /\ r_results.total_patients \in 0..MaxPatients

\* =================================================================
\* Patient discovery: PatientDiscoveryStep.execute
\* =================================================================
DiscInit ==
    /\ EngineIdle
    /\ BatchUnused
    /\ RegUnused
    /\ StdUnused
    /\ ExtraUnused
    /\ discovery = DiscFresh("scanning")

\* pathlib's glob with a pattern `*suffix`: the name ends with the suffix
Matches(suffix, name) ==
    /\ Len(suffix) <= Len(name)
    /\ \A k \in 1..Len(suffix) :
          name[Len(name) - Len(suffix) + k] = suffix[k]

\* lines 68-72: the pairs of patterns, in the order in which they are tried
Patterns ==
    << [t2w |-> <<"_", "t2", "w">>, adc |-> <<"_", "adc">>],
       [t2w |-> <<"_", "T2", "W">>, adc |-> <<"_", "ADC">>],
       [t2w |-> <<"t2">>, adc |-> <<"adc">>] >>

\* the number the model gives to the exact-name convention of lines 100-106
ExactConvention == Len(Patterns) + 1

\* lines 91-92: list(patient_dir.glob(pattern))
Candidates(files, suffix) == {f \in files : Matches(suffix, f)}

\* line 94
BothFound(files, k) ==
    /\ Candidates(files, Patterns[k].t2w) # {}
    /\ Candidates(files, Patterns[k].adc) # {}

\* (mutation: the patterns are tried from the last to the first)
Earlier_Reversed(j, k) == j > k

\* line 90: the loop tries the pairs in list order and breaks at the first
\* pair for which both lists are non-empty
Earlier(j, k) == j < k

\* the pair of patterns the loop of lines 90-97 stops at (0: none)
FirstMatch(files) ==
    IF \E k \in 1..Len(Patterns) : BothFound(files, k)
    THEN CHOOSE k \in 1..Len(Patterns) :
            /\ BothFound(files, k)
            /\ \A j \in 1..Len(Patterns) : Earlier(j, k) => ~BothFound(files, j)
    ELSE 0

\* lines 101-102: the exact names
ExactT2W == <<"id", "_", "t2", "w">>
ExactADC == <<"id", "_", "adc">>

\* lines 87-106: the pairs of paths a directory can end with.  candidates[0]
\* is the first name glob yields, which may be any of the matching files.
Pairs(files) ==
    LET k == FirstMatch(files)
    IN  IF k # 0
        THEN {[t2w_path |-> t, adc_path |-> a, convention |-> k] :
                 t \in Candidates(files, Patterns[k].t2w),
                 a \in Candidates(files, Patterns[k].adc)}
        ELSE IF ExactT2W \in files /\ ExactADC \in files
        THEN {[t2w_path |-> ExactT2W, adc_path |-> ExactADC,
               convention |-> ExactConvention]}
        ELSE {}

\* (mutation: only the entries that are not directories are skipped)
Skipped_OnlyFiles(e) == ~e.is_dir

\* lines 78-82
Skipped(e) == ~e.is_dir \/ e.hidden

\* (mutation: a found patient is appended twice)
Found_Twice(lst, item) == Append(Append(lst, item), item)

\* lines 109-114
Found(lst, item) == Append(lst, item)

\* one iteration of the loop of line 77 on the next entry e of the base
\* directory; the patient id is the name of the entry, here its position
Disc_Visit(e) ==
    /\ d_pc = "scanning"
    /\ d_pos < MaxEntries
    /\ LET pairs == IF Skipped(e) THEN {} ELSE Pairs(e.files)
           visited == [discovery EXCEPT !.pos = @ + 1, !.entry = e]
       IN  IF pairs = {}
           THEN discovery' = visited
           ELSE \E p \in pairs :
                   discovery' =
                       [visited EXCEPT
                           !.patients =
                               Found(@, [patient_id |-> d_pos + 1,
                                         t2w_path |-> p.t2w_path,
                                         adc_path |-> p.adc_path,
                                         convention |-> p.convention])]
    /\ UNCHANGED <<evars, bvars, rvars, svars, xvars>>

\* lines 119-124: the listing is exhausted and the result is returned
Disc_Return ==
    /\ d_pc = "scanning"
    /\ discovery' =
          [discovery EXCEPT
              !.pc = "returned",
              !.result = [returned |-> TRUE, patients |-> d_patients,
                          total_patients |-> Len(d_patients)]]
    /\ UNCHANGED <<evars, bvars, rvars, svars, xvars>>

NextDisc ==
    \/ \E e \in Entries : Disc_Visit(e)
    \/ Disc_Return

SpecDisc == DiscInit /\ [][NextDisc]_vars

DiscTypeOK ==
    /\ d_pc \in {"scanning", "returned"}
    /\ d_pos \in 0..MaxEntries
    /\ d_entry \in Entries
    /\ Len(d_patients) <= 2 * MaxEntries

\* =================================================================
\* Vocabulary of the properties, read off the call log of the run
\* =================================================================
CallIdx == 1..Len(calls)

\* the engine called the given method on the step at position i
Called(method, i) ==
    \E n \in CallIdx : calls[n][1] = method /\ calls[n][2] = i

\* the call is a failed validation or a failed execution
IsFailure(c) ==
    \/ (c[1] = "validate" /\ c[3] # "true")
    \/ (c[1] = "execute" /\ c[3] = "raise")

\* the step at position i failed in this run
StepFailed(i) ==
    \E n \in CallIdx : calls[n][2] = i /\ IsFailure(calls[n])

\* k is the first position whose step failed
FirstFailure(k) ==
    StepFailed(k) /\ \A j \in 1..(k - 1) : ~StepFailed(j)

\* the execute call has ended (returned or raised)
RunOver == pc = "idle" /\ outcome # "none"

DistinctNames ==
    \A i, j \in 1..Len(steps) : i # j => steps[i] # steps[j]

\* names with an entry in results['step_results']
Recorded == {n \in StepNames : step_results[n].status # "none"}

\* -----------------------------------------------------------------
\* C1: with continue_on_error = false, once step k is the first step whose
\* validation or execution failed, the engine never calls validate_inputs
\* or execute of a step after k, and the execute call ends by raising,
\* never by returning a result.
C1_AbortsAtFirstFailure ==
    ~continue_on_error =>
        \A k \in 1..Len(steps) :
            FirstFailure(k) =>
                /\ \A n \in CallIdx :
                       calls[n][1] \in {"validate", "execute"} => calls[n][2] <= k
                /\ outcome # "returned"
                /\ RunOver => outcome = "raised"

C1_Witness ==
    /\ RunOver
    /\ ~continue_on_error
    /\ Len(steps) = 3
    /\ FirstFailure(2)
    /\ outcome = "raised"
    /\ ~Called("validate", 3)

\* -----------------------------------------------------------------
\* C2: with continue_on_error = false and distinct step names, a run whose
\* first failing step is k ends with exactly k recorded outcomes: success
\* for the steps 1..k-1, failed for step k, none for the later steps, and
\* with run status failed.
C2_ExactlyKOutcomes ==
    (RunOver /\ ~continue_on_error /\ DistinctNames) =>
        \A k \in 1..Len(steps) :
            FirstFailure(k) =>
                /\ Cardinality(Recorded) = k
                /\ \A j \in 1..(k - 1) : step_results[steps[j]].status = "success"
                /\ step_results[steps[k]].status = "failed"
                /\ \A j \in (k + 1)..Len(steps) : step_results[steps[j]].status = "none"
                /\ status = "failed"
                /\ meta_status = "failed"

C2_Witness ==
    /\ RunOver
    /\ ~continue_on_error
    /\ DistinctNames
    /\ Len(steps) = 3
    /\ FirstFailure(2)
    /\ Cardinality(Recorded) = 2
    /\ status = "failed"

\* -----------------------------------------------------------------
\* C3: with continue_on_error = true and n distinct step names, a finished
\* run has exactly n recorded outcomes, failed for every step that failed
\* and success for every other step, and every step was started, also the
\* steps after a failed one.
C3_OneOutcomePerStep ==
    (RunOver /\ continue_on_error /\ DistinctNames) =>
        /\ Cardinality(Recorded) = Len(steps)
        /\ \A i \in 1..Len(steps) :
               /\ Called("validate", i)
               /\ step_results[steps[i]].status =
                      IF StepFailed(i) THEN "failed" ELSE "success"
               /\ ~StepFailed(i) => Called("execute", i)

C3_Witness ==
    /\ RunOver
    /\ continue_on_error
    /\ DistinctNames
    /\ Len(steps) = 3
    /\ ~StepFailed(1) /\ StepFailed(2) /\ ~StepFailed(3)
    /\ step_results[steps[1]].status = "success"
    /\ step_results[steps[2]].status = "failed"
    /\ step_results[steps[3]].status = "success"

\* -----------------------------------------------------------------
\* C4: a finished run in which at least one step failed has run status
\* failed (also under continue_on_error = true), and a run with status
\* completed has no failed step.
C4_FailedIfAnyStepFailed ==
    RunOver =>
        /\ (\E i \in 1..Len(steps) : StepFailed(i)) => status = "failed"
        /\ status = "completed" => \A i \in 1..Len(steps) : ~StepFailed(i)

\* -----------------------------------------------------------------
\* C5: within one execute call the engine visits the steps in the order of
\* self.steps, one at a time: the first call is validate_inputs of step 1,
\* validate_inputs of step i+1 directly follows cleanup of step i, execute
\* of a step directly follows its own successful validation, cleanup of a
\* step directly follows its own failed validation or its own execute,
\* and no method is called twice on a step.
C5_StepsInOrderOneAtATime ==
    /\ \A n \in CallIdx :
           LET c == calls[n] IN
           IF n = 1
           THEN c[1] = "validate" /\ c[2] = 1
           ELSE LET b == calls[n - 1] IN
                CASE c[1] = "validate" -> b[1] = "cleanup" /\ b[2] = c[2] - 1
                  [] c[1] = "execute"  -> b[1] = "validate" /\ b[2] = c[2] /\ b[3] = "true"
                  [] c[1] = "cleanup"  -> /\ b[2] = c[2]
                                          /\ \/ b[1] = "execute"
                                             \/ b[1] = "validate" /\ b[3] # "true"
    /\ Cardinality({<<calls[n][1], calls[n][2]>> : n \in CallIdx}) = Len(calls)
    /\ \A n \in CallIdx : calls[n][2] \in 1..Len(steps)

C5_Witness ==
    /\ RunOver
    /\ Len(steps) = 3
    /\ Called("execute", 1) /\ Called("execute", 2) /\ Called("execute", 3)
    /\ Len(calls) = 9

\* -----------------------------------------------------------------
\* C6: cleanup is called at most once on a step, and exactly once on every
\* started step as soon as the engine has left that step (it moved on to
\* the next step, or the run is ending or over), whatever the step did and
\* also when the run aborts; every call on step i+1 comes after the
\* cleanup of step i.
CleanupCalls(i) ==
    {n \in CallIdx : calls[n][1] = "cleanup" /\ calls[n][2] = i}

LeftStep(i) ==
    \/ pc \in {"finish", "idle"}
    \/ current_step_index + 1 > i

C6_CleanupExactlyOnce ==
    \A i \in 1..Len(steps) :
        LET cl == CleanupCalls(i) IN
        /\ Cardinality(cl) <= 1
        /\ (Called("validate", i) /\ LeftStep(i)) => Cardinality(cl) = 1
        /\ \A n \in CallIdx :
               calls[n][2] = i + 1 => \E m \in cl : m < n

C6_Witness ==
    /\ RunOver
    /\ ~continue_on_error
    /\ Len(steps) = 3
    /\ Called("execute", 1) /\ ~StepFailed(1)
    /\ \E n \in CallIdx : calls[n][1] = "validate" /\ calls[n][2] = 2 /\ calls[n][3] = "false"
    /\ Cardinality(CleanupCalls(1)) = 1
    /\ Cardinality(CleanupCalls(2)) = 1
    /\ outcome = "raised"

\* -----------------------------------------------------------------
\* C7: an exception of step.cleanup() changes nothing that is recorded and
\* does not abort the run.  For every step whose cleanup raised: the
\* step's status and its recorded outcome are decided by its validation and
\* execution alone; an exception propagates (and the run ends raised and
\* failed) exactly if continue_on_error is false and a validation or
\* execution failed; otherwise every step is started and the run ends
\* returned and completed.
CleanupRaised(i) ==
    \E n \in CleanupCalls(i) : calls[n][3] = "raise"

AbortDue == ~continue_on_error /\ \E k \in 1..Len(steps) : StepFailed(k)

C7_CleanupFailureIsAbsorbed ==
    (\E i \in 1..Len(steps) : CleanupRaised(i)) =>
        LET abort == AbortDue IN
        /\ \A i \in 1..Len(steps) :
               CleanupRaised(i) =>
                   LET failed == StepFailed(i) IN
                   /\ stepStatus[i] = IF failed THEN "failed" ELSE "completed"
                   /\ DistinctNames =>
                          step_results[steps[i]].status =
                              IF failed THEN "failed" ELSE "success"
        /\ pc # "idle" => raising = abort
        /\ RunOver =>
               /\ outcome = IF abort THEN "raised" ELSE "returned"
               /\ status = IF abort THEN "failed" ELSE "completed"
               /\ ~abort => \A j \in 1..Len(steps) : Called("validate", j)

C7_Witness ==
    /\ RunOver
    /\ ~continue_on_error
    /\ Len(steps) = 3
    /\ CleanupRaised(1)
    /\ Called("execute", 2) /\ Called("execute", 3)
    /\ status = "completed"
    /\ outcome = "returned"

\* -----------------------------------------------------------------
\* C8: a failed validation is handled as a raising execute is.  For both:
\* the step gets status failed; right after the failure the entry of the
\* step in step_results is the failed entry, the last entry of the error
\* list is the one of this step, and the exception propagates exactly if
\* continue_on_error is false; the next call is the cleanup of the step;
\* then the run aborts (continue_on_error false) or goes on with the next
\* step (continue_on_error true).  After a failed validation execute of
\* the step is never called.
FailureHandled(n) ==
    LET i == calls[n][2] IN
    /\ stepStatus[i] = "failed"
    /\ n = Len(calls) =>
           /\ step_results[steps[i]] = FailedEntry
           /\ errors # <<>>
           /\ errors[Len(errors)].step_index = i - 1
           /\ errors[Len(errors)].step_name = steps[i]
           /\ pc = "cleanup"
           /\ raising = ~continue_on_error
    /\ n < Len(calls) => calls[n + 1][1] = "cleanup" /\ calls[n + 1][2] = i
    /\ n + 1 < Len(calls) =>
           /\ continue_on_error
           /\ calls[n + 2][1] = "validate" /\ calls[n + 2][2] = i + 1
    /\ (RunOver /\ ~continue_on_error) => (n + 1 = Len(calls) /\ outcome = "raised")
    /\ (RunOver /\ continue_on_error /\ i < Len(steps)) => n + 1 < Len(calls)

C8_ValidationFailureLikeExecutionFailure ==
    \A n \in CallIdx :
        IsFailure(calls[n]) =>
            /\ FailureHandled(n)
            /\ calls[n][1] = "validate" => ~Called("execute", calls[n][2])

C8_Witness ==
    /\ RunOver
    /\ continue_on_error
    /\ Len(steps) = 3
    /\ \E n \in CallIdx : calls[n][1] = "validate" /\ calls[n][2] = 1 /\ calls[n][3] = "false"
    /\ \E n \in CallIdx : calls[n][1] = "execute" /\ calls[n][2] = 2 /\ calls[n][3] = "raise"
    /\ Called("execute", 3)
    /\ Len(errors) = 2

\* -----------------------------------------------------------------
\* C9: with continue_on_error = true a failed step leaves the context as
\* it was given to the step: the context right after the failure, the one
\* at the cleanup of the step and the one passed to the next step are equal
\* to the context passed to the failing call.
C9_FailedStepLeavesContext ==
    continue_on_error =>
        \A n \in CallIdx :
            IsFailure(calls[n]) =>
                /\ n = Len(calls) => current_data = calls[n][4]
                /\ \A m \in CallIdx :
                       (\/ calls[m][1] = "cleanup" /\ calls[m][2] = calls[n][2]
                        \/ calls[m][1] = "validate" /\ calls[m][2] = calls[n][2] + 1)
                           => calls[m][4] = calls[n][4]

C9_Witness ==
    /\ continue_on_error
    /\ Len(steps) = 3
    /\ \E n, m \in CallIdx :
           /\ calls[n][1] = "execute" /\ calls[n][2] = 2 /\ calls[n][3] = "raise"
           /\ calls[m][1] = "validate" /\ calls[m][2] = 3
           /\ calls[m][4] = calls[n][4]
           /\ \E k \in Keys : calls[n][4][k] = 1
           /\ \E k \in Keys : calls[n][4][k] = Absent

\* -----------------------------------------------------------------
\* C10: during a run the key set of the context only grows: it contains
\* the keys of the caller's input, and no step of the engine removes a key
\* from it; the key set of the caller's input mapping stays as it was
\* passed.
C10_ContextOnlyGrows ==
    /\ [](KeySet(input_data) \subseteq KeySet(current_data))
    /\ [][pc # "idle" =>
            /\ KeySet(current_data) \subseteq KeySet(current_data')
            /\ KeySet(input_data') = KeySet(input_data)]_vars

C10_Witness ==
    /\ RunOver
    /\ \E k \in Keys : input_data[k] = Absent /\ current_data[k] > 0
    /\ \E k \in Keys : input_data[k] = 0 /\ current_data[k] > 0

\* =================================================================
\* Vocabulary of the properties of the batch layer
\* =================================================================
\* the patient ids of the input list of BatchProcessingStep
InputIds == {patients[k] : k \in 1..Len(patients)}

\* how often id occurs in the list lst
Count(lst, id) == Cardinality({k \in 1..Len(lst) : lst[k] = id})

\* BatchProcessingStep.execute has returned
ProcessingReturned == b_stepStatus[ProcessingStep] = "completed"

\* BatchProcessingStep.execute was entered with a patient list and is over
ProcessingOver ==
    /\ mode # "none"
    /\ b_pc \in {"reporting", "finish", "done"}

\* ---------------------------------------------------------------- C11
\* C11: when BatchProcessingStep.execute returns, every patient id of the
\* input list occurs exactly once in 'successful' and 'failed' taken
\* together and has an entry in 'detailed_results'; no other id occurs in
\* any of the three.  This holds in both branches and for every
\* interleaving of the workers.
C11_OneOutcomePerItem ==
    ProcessingReturned =>
        /\ \A id \in InputIds :
              /\ Count(res_successful, id) + Count(res_failed, id) = 1
              /\ id \in DOMAIN detailed_results
        /\ \A id \in PatientIds \ InputIds :
              /\ Count(res_successful, id) + Count(res_failed, id) = 0
              /\ id \notin DOMAIN detailed_results
        /\ Len(res_successful) + Len(res_failed) = Len(patients)

\* a concurrent batch with successes and failures has returned
C11_Witness ==
    /\ ProcessingReturned
    /\ mode = "concurrent"
    /\ res_successful # <<>>
    /\ res_failed # <<>>

\* ---------------------------------------------------------------- C12
\* C12: in the concurrent branch at most max_workers patients are being
\* processed at any time; the others wait in the queue, and every patient
\* is waiting, being processed or finished.
C12_AtMostWInFlight ==
    mode = "concurrent" =>
        /\ Cardinality(running) <= b_max_workers
        /\ \A id \in InputIds :
              \/ \E k \in 1..Len(queue) : queue[k] = id
              \/ id \in running
              \/ id \in Finished(futures)

\* all workers are busy and a patient waits
C12_Witness ==
    /\ mode = "concurrent"
    /\ Cardinality(running) = b_max_workers
    /\ queue # <<>>
    /\ Finished(futures) # {}

\* ---------------------------------------------------------------- C13
\* C13: an exception raised while one patient is processed, inside or
\* before the try block of _process_single_patient, becomes a failure
\* outcome of that patient only: when the step is over every patient has
\* been processed and recorded, and the outcome of each depends on that
\* patient alone (it is what it would be in a batch without failures).
C13_PerItemIsolation ==
    ProcessingOver =>
        \A id \in InputIds :
            /\ id \in collected
            /\ id \in DOMAIN detailed_results
            /\ detailed_results[id] = DetailOf(ResultOf(fate[id]))
            /\ (Count(res_successful, id) = 1) = (fate[id] = "ok")
            /\ (Count(res_failed, id) = 1) = (fate[id] # "ok")

\* a patient whose directory could not be created failed, one with a
\* failure inside the try block failed, and a third succeeded
C13_Witness ==
    /\ ProcessingOver
    /\ \E i, j, k \in InputIds :
          /\ fate[i] = "fail_before_try" /\ detailed_results[i] = "failure_without_type"
          /\ fate[j] = "fail_in_try" /\ detailed_results[j] = "failure_with_type"
          /\ fate[k] = "ok" /\ detailed_results[k] = "success"
          /\ i < k

\* ---------------------------------------------------------------- C14
\* C14: if every call of process_patient ends, BatchProcessingStep.execute
\* returns with an outcome for every patient, whichever patients fail and
\* whatever max_workers is: a failed patient does not hold a worker for
\* ever or keep queued patients from being started.
C14_FanOutReturns ==
    (b_pc = "fanout") ~>
        /\ ProcessingReturned
        /\ queue = <<>> /\ running = {}
        /\ Len(res_successful) + Len(res_failed) = Len(patients)

\* one worker, the first patient raised before its try block, and the batch
\* has returned with an outcome for every patient
C14_Witness ==
    /\ ProcessingReturned
    /\ mode = "concurrent" /\ b_max_workers = 1
    /\ Len(patients) >= 2
    /\ fate[1] = "fail_before_try"
    /\ Len(res_successful) + Len(res_failed) = Len(patients)

\* ---------------------------------------------------------------- C15
\* a list of patient ids is in the order of the input list
InListOrder(lst) == \A j, k \in 1..Len(lst) : j < k => lst[j] < lst[k]

\* C15: when max_workers is 1 or parallel processing is off, the patients
\* are processed strictly in list order, one at a time, and the outcomes
\* are recorded in the order of the input list.
C15_SequentialInListOrder ==
    (b_max_workers = 1 \/ ~b_parallel) =>
        /\ Cardinality(running) <= 1
        /\ InListOrder(started)
        /\ InListOrder(res_successful)
        /\ InListOrder(res_failed)

\* ---------------------------------------------------------------- C16
\* C16: from the start of BatchProcessingStep.execute on, the shared
\* standardizer is what it was at that start: no per-patient run trains it
\* or changes its trained flag or parameters, under every interleaving.
C16_SharedStandardizerReadOnly ==
    mode # "none" => std = std_at_fanout

\* a concurrent batch that shared a trained standardizer has returned, with
\* runs that went through their StandardizationStep
C16_Witness ==
    /\ ProcessingReturned
    /\ mode = "concurrent"
    /\ SharedStandardizer /\ std.trained
    /\ Len(res_successful) >= 2

\* ---------------------------------------------------------------- C17
\* no patient has been submitted to the pool or processed
NoItemTouched == started = <<>> /\ queue = <<>> /\ futures = <<>>

\* BatchStandardizationStep is over
TrainingOver == b_stepStatus[TrainingStep] \in {"completed", "failed"}

\* C17 as stated: no patient is submitted or processed before
\* BatchStandardizationStep is over, and if that step failed no patient is
\* processed at all.
C17_NoItemIfTrainingFails ==
    /\ ~TrainingOver => NoItemTouched
    /\ b_stepStatus[TrainingStep] = "failed" => NoItemTouched

\* C17, amended: no patient is submitted or processed before
\* BatchStandardizationStep is over; if that step failed and
\* continue_on_error is false no patient is processed at all; if it failed
\* and continue_on_error is true the patients are processed without a
\* shared standardizer.
C17_TrainingBeforeFanOut ==
    /\ ~TrainingOver => NoItemTouched
    /\ (b_stepStatus[TrainingStep] = "failed" /\ ~b_coe) => NoItemTouched
    /\ (b_stepStatus[TrainingStep] = "failed" /\ b_coe) =>
           /\ ~SharedStandardizer
           /\ std = NoStandardizer

\* training failed under continue_on_error and patients were processed
C17_Witness ==
    /\ b_method = "nyul"
    /\ b_stepStatus[TrainingStep] = "failed"
    /\ b_coe
    /\ ProcessingReturned
    /\ res_successful # <<>>

\* ---------------------------------------------------------------- C18
\* C18: the summary of BatchReportingStep has the counts of the run: its
\* 'successful' and 'failed' are the lengths of the lists of
\* BatchProcessingStep, they add up to total_patients, and the table has
\* one row per processed patient.
C18_SummaryReflectsOutcomes ==
    summary.written =>
        /\ summary.successful = Len(res_successful)
        /\ summary.failed = Len(res_failed)
        /\ summary.successful + summary.failed = summary.total
        /\ summary.rows = Cardinality(collected)

\* ---------------------------------------------------------------- C19
\* C19: if BatchReportingStep raises, the batch run still returns to the
\* caller without raising and its status does not become failed.
C19_ReportingCannotFailBatch ==
    (b_pc = "done" /\ b_stepStatus[ReportingStep] = "failed"
        /\ \A k \in {DiscoveryStep, TrainingStep, ProcessingStep} :
              b_stepStatus[k] = "completed") =>
        /\ b_outcome = "returned"
        /\ b_status # "failed"

\* ---------------------------------------------------------------- C20
\* C20: whichever patients fail, BatchProcessingStep.execute returns with
\* the full lists of successful and failed patients, and the batch run
\* does not fail because of them: if the run raised, a step other than
\* BatchProcessingStep failed.
C20_ItemFailuresDoNotFailBatch ==
    ProcessingOver =>
        /\ ProcessingReturned
        /\ Len(res_successful) + Len(res_failed) = Len(patients)
        /\ \A k \in 1..Len(res_failed) : fate[res_failed[k]] # "ok"
        /\ b_outcome = "raised" =>
              \E k \in {DiscoveryStep, TrainingStep, ReportingStep} :
                  b_stepStatus[k] = "failed"

\* every patient of a batch failed and the run returned as completed
C20_Witness ==
    /\ b_pc = "done"
    /\ b_outcome = "returned" /\ b_status = "completed"
    /\ Len(patients) >= 2
    /\ Len(res_failed) = Len(patients)
    /\ \E i \in InputIds : fate[i] = "fail_before_try"

\* ---------------------------------------------------------------- C21
\* C21: every failure outcome BatchProcessingStep records for a patient has
\* both an 'error' text and an 'error_type', on every path by which a
\* patient can fail.
C21_FailuresCarryMessageAndKind ==
    \A id \in DOMAIN detailed_results :
        detailed_results[id] # "success" =>
            detailed_results[id] = "failure_with_type"

\* =================================================================
\* Vocabulary of the properties of the registration processor
\* =================================================================
\* a configuration error in the sense of the claim: the executable is
\* missing, not executable or not working, or the parameter file is not found
ConfigurationError(env) ==
    \/ NoInstallation(env)
    \/ ElastixUnusable(env)
    \/ env.rigid \in {"given_missing", "not_found"}

\* the external executable tool was run for patient id and ended as o
Ran(id, tool, o) == \E k \in 1..Len(r_calls) : r_calls[k] = <<id, tool, o>>

\* the patients of the rows of a list
Members(lst) == {lst[k] : k \in 1..Len(lst)}

\* ---------------------------------------------------------------- C22
\* C22: with a configuration error the constructor raises, before any run:
\* no directory is scanned, no item is processed, no output is written.
C22_ConfigErrorBeforeAnyRun ==
    ConfigurationError(r_env) =>
        /\ r_pc \in {"fresh", "config_error"}
        /\ r_results = NoResults
        /\ r_error_rows = <<>>
        /\ r_calls = <<>>

\* ---------------------------------------------------------------- C23
\* C23: when the registration executable ends with a non-zero exit status
\* or a timeout for a patient, the transform executable is not run for that
\* patient, register_adc_to_t2w returns a record with success false and an
\* error text, the patient is counted as failed only, and the loop goes on
\* to the patients after it.
C23_ElastixFailureFailsItemOnly ==
    \A id \in PatientIds :
        (Ran(id, "elastix", "nonzero") \/ Ran(id, "elastix", "timeout")) =>
            /\ \A o \in ToolOutcomes : ~Ran(id, "transformix", o)
            /\ id \in DOMAIN r_results.detailed_results
            /\ r_results.detailed_results[id].success = FALSE
            /\ r_results.detailed_results[id].error # ""
            /\ Count(r_results.failed, id) = 1
            /\ Count(r_results.successful, id) = 0
            /\ id \notin Members(r_dirs)
            /\ r_pc \in {"items", "returned"} \/ Members(r_dirs) # {}

\* a run returned in which the executable exited non-zero for one patient,
\* timed out for another and a later patient was registered
C23_Witness ==
    /\ r_pc = "returned"
    /\ \E i, j, k \in PatientIds :
          /\ Ran(i, "elastix", "nonzero")
          /\ Ran(j, "elastix", "timeout")
          /\ i < k /\ j < k
          /\ Ran(k, "transformix", "ok")
          /\ Count(r_results.successful, k) = 1

\* =================================================================
\* Vocabulary of the properties of patient discovery
\* =================================================================
\* a file is a T2W (an ADC) image under some convention
IsT2W(name) == \E k \in 1..Len(Patterns) : Matches(Patterns[k].t2w, name)
IsADC(name) == \E k \in 1..Len(Patterns) : Matches(Patterns[k].adc, name)
HasT2W(files) == \E f \in files : IsT2W(f)
HasADC(files) == \E f \in files : IsADC(f)

\* both files are there under one and the same convention
UnderOneConvention(files) ==
    \/ \E k \in 1..Len(Patterns) : BothFound(files, k)
    \/ ExactT2W \in files /\ ExactADC \in files

\* the positions of the work list that hold the entry visited as number pos
ItemsOf(lst, pos) == {k \in 1..Len(lst) : lst[k].patient_id = pos}

\* the entry visited last is a directory with a name that is not dot-prefixed
VisibleDir(e) == e.is_dir /\ ~e.hidden

\* ---------------------------------------------------------------- C24
\* C24: a patient directory with only one of the two modalities is not in
\* the work list; a patient directory that has both files under one
\* convention is in the list exactly once (and no directory is in it more
\* than once); total_patients is the length of the returned list.
C24_CompleteDirectoriesExactlyOnce ==
    /\ (d_pos >= 1 /\ VisibleDir(d_entry)) =>
          /\ (HasT2W(d_entry.files) # HasADC(d_entry.files)) =>
                ItemsOf(d_patients, d_pos) = {}
          /\ UnderOneConvention(d_entry.files) =>
                Cardinality(ItemsOf(d_patients, d_pos)) = 1
    /\ \A pos \in 1..MaxEntries :
          /\ Cardinality(ItemsOf(d_patients, pos)) <= 1
          /\ pos > d_pos => ItemsOf(d_patients, pos) = {}
    /\ d_result.returned =>
          /\ d_result.patients = d_patients
          /\ d_result.total_patients = Len(d_result.patients)

\* the first directory was complete and is the one item of the returned
\* list, the second had a T2W image only
C24_Witness ==
    /\ d_result.returned /\ d_result.total_patients = 1
    /\ d_pos = 2
    /\ ItemsOf(d_result.patients, 1) # {}
    /\ VisibleDir(d_entry)
    /\ HasT2W(d_entry.files) /\ ~HasADC(d_entry.files)

\* ---------------------------------------------------------------- C25
\* C25: the work item of a directory takes both files from the first pair
\* of patterns, in the order of the list, under which both modalities
\* match; both files match the patterns of that one pair; the exact names
\* are used only if no pair of patterns matched.
C25_FirstMatchingConventionWins ==
    \A k \in 1..Len(d_patients) :
        LET item == d_patients[k]
            c == item.convention
        IN  /\ c \in 1..Len(Patterns) =>
                  /\ Matches(Patterns[c].t2w, item.t2w_path)
                  /\ Matches(Patterns[c].adc, item.adc_path)
            /\ c = ExactConvention =>
                  /\ item.t2w_path = ExactT2W
                  /\ item.adc_path = ExactADC
            /\ item.patient_id = d_pos =>
                  /\ item.t2w_path \in d_entry.files
                  /\ item.adc_path \in d_entry.files
                  /\ \A j \in 1..Len(Patterns) :
                        j < c => ~(/\ \E f \in d_entry.files :
                                         Matches(Patterns[j].t2w, f)
                                   /\ \E f \in d_entry.files :
                                         Matches(Patterns[j].adc, f))

\* a directory in which the first and the third pair of patterns both match
\* became a work item under the first, and one with an ADC file of the
\* first convention but a T2W file of the third only under the third
C25_Witness ==
    /\ d_pos = 2
    /\ \E k \in ItemsOf(d_patients, 1) : d_patients[k].convention = 3
    /\ \E k \in ItemsOf(d_patients, 2) : d_patients[k].convention = 1
    /\ BothFound(d_entry.files, 1) /\ BothFound(d_entry.files, 3)

\* ---------------------------------------------------------------- C26
\* C26: an entry of the base directory that is not a directory, or whose
\* name starts with a dot, never becomes a work item, whatever it contains.
C26_HiddenAndFilesNeverItems ==
    (d_pos >= 1 /\ ~VisibleDir(d_entry)) =>
        /\ ItemsOf(d_patients, d_pos) = {}
        /\ ItemsOf(d_result.patients, d_pos) = {}

\* a dot-prefixed directory with a complete pair of files was visited and
\* is not in the returned list
C26_Witness ==
    /\ d_result.returned
    /\ d_pos >= 1
    /\ d_entry.is_dir /\ d_entry.hidden
    /\ ExactT2W \in d_entry.files /\ ExactADC \in d_entry.files
    /\ ItemsOf(d_result.patients, d_pos) = {}

\* ======================================================================
\* The intensity standardizers: IntensityStandardizer (save and load),
\* NyulStandardizer and ZScoreStandardizer (train and transform).
\* Numbers are exact fractions; the rounding of float64 is left out.
\* ======================================================================

\* two images, voxel values as integers, 0 is background; every image has
\* a voxel above 0
Images == {<<0, 1, 3>>, <<2, 4>>}
TrainingSets == {<<>>, <<(<<0, 1, 3>>)>>, <<(<<2, 4>>)>>, <<(<<0, 1, 3>>), <<2, 4>>>>}

StdInit ==
    /\ EngineIdle
    /\ BatchUnused
    /\ RegUnused
    /\ DiscUnused
    /\ ExtraUnused
    /\ \E m \in NewModels : standardizers = StdFresh("active", <<m, m>>)

RECURSIVE SumSeq(_)
SumSeq(xs) == IF xs = <<>> THEN 0 ELSE Head(xs) + SumSeq(Tail(xs))

Abs(x) == IF x < 0 THEN 0 - x ELSE x

\* img_array[img_array > 0]
NonZero(img) == SelectSeq(img, LAMBDA x : x > 0)

\* all_values after the loop of ZScoreStandardizer.train
RECURSIVE AllValues(_)
AllValues(images) ==
    IF images = <<>> THEN <<>>
    ELSE NonZero(Head(images)) \o AllValues(Tail(images))

\* np.median of values xs / den: of the sorted values the middle one, or
\* the mean of the two middle ones, written over the denominator 2 * den;
\* nan for no value
MedianOf(tag, xs, den) ==
    LET st == SortSeq(xs, LAMBDA a, b : a < b)
        n == Len(xs)
    IN  IF n = 0 THEN NaN
        ELSE IF n % 2 = 1 THEN Number(tag, 2 * st[(n + 1) \div 2], 2 * den)
        ELSE Number(tag, st[n \div 2] + st[(n \div 2) + 1], 2 * den)

\* np.median(np.abs(values - median)) * 1.4826, the factor kept in the tag
MadOf(xs) ==
    LET med == MedianOf("median", xs, 1)
    IN  IF xs = <<>> THEN NaN
        ELSE MedianOf("mad*1.4826",
                      [i \in 1..Len(xs) |-> Abs((2 * xs[i]) - med.num)], 2)

\* np.mean and np.std: the sum over the count, and the square root (kept in
\* the tag) of the variance (n * sum of squares - square of sum) / n^2
MeanOf(xs) ==
    IF xs = <<>> THEN NaN ELSE Number("mean", SumSeq(xs), Len(xs))
StdOf(xs) ==
    LET n == Len(xs)
        squares == [i \in 1..n |-> xs[i] * xs[i]]
    IN  IF n = 0 THEN NaN
        ELSE Number("sqrt", (n * SumSeq(squares)) - (SumSeq(xs) * SumSeq(xs)), n * n)

\* the statistics of ZScoreStandardizer, lines 43-49 and 67-72
StatMean(robust, xs) == IF robust THEN MedianOf("median", xs, 1) ELSE MeanOf(xs)
StatStd(robust, xs) == IF robust THEN MadOf(xs) ELSE StdOf(xs)

\* range(1, len(self.standard_landmarks) - 1) counted from 0: the indexes of
\* the interior landmarks
LoopRange_Short(n) == 1..(n - 3)
LoopRange(n) == 1..(n - 2)

\* NyulStandardizer.train lines 52-64 for n landmarks and a non-empty
\* training set: the averaged landmarks, then the first, then the last,
\* then the interior ones are assigned, in this order; numerators over the
\* denominator n - 1 (1 for a single landmark)
StandardLandmarks(n, scale) ==
    LET den == IF n = 1 THEN 1 ELSE n - 1
        mean == [i \in 1..n |-> 0]
        first == [mean EXCEPT ![1] = scale[1] * den]
        last == [first EXCEPT ![n] = scale[2] * den]
        spaced == [i \in 1..n |->
                     IF (i - 1) \in LoopRange(n)
                     THEN (scale[1] * den) + ((scale[2] - scale[1]) * (i - 1))
                     ELSE last[i]]
    IN  [t |-> "array", num |-> spaced, den |-> den,
         averaged |-> (1..n) \ ({1, n} \cup {i + 1 : i \in LoopRange(n)})]

\* NyulStandardizer.train: with no image np.mean gives the scalar nan,
\* which is stored, and the item assignment of line 55 raises TypeError
\* before parameters and trained are written
NyulTrain(o, images) ==
    IF images = <<>>
    THEN [outcome |-> "TypeError",
          after |-> [o EXCEPT !.standard_landmarks = NaNScalar]]
    ELSE LET lm == StandardLandmarks(Len(o.landmarks_percentage), o.standard_scale)
         IN  [outcome |-> "returned",
              after |-> [o EXCEPT !.standard_landmarks = lm,
                                  !.parameters.keys = @ \cup {"standard_landmarks", "landmarks_percentage"},
                                  !.parameters.standard_landmarks = lm,
                                  !.parameters.landmarks_percentage = o.landmarks_percentage,
                                  !.trained = TRUE]]

\* ZScoreStandardizer.train: never raises, the statistics of no value
\* are nan
ZScoreTrain(o, images) ==
    LET xs == AllValues(images)
        gmean == StatMean(o.use_robust_statistics, xs)
        gstd == StatStd(o.use_robust_statistics, xs)
    IN  [outcome |-> "returned",
         after |-> [o EXCEPT !.global_mean = gmean,
                             !.global_std = gstd,
                             !.parameters.keys = @ \cup {"global_mean", "global_std", "use_robust"},
                             !.parameters.global_mean = gmean,
                             !.parameters.global_std = gstd,
                             !.parameters.use_robust = o.use_robust_statistics,
                             !.trained = TRUE]]

TrainOp(o, images) ==
    IF o.kind = "nyul" THEN NyulTrain(o, images) ELSE ZScoreTrain(o, images)

\* what transform returns: nothing (it raised), or the image mapped by
\* landmarks (Nyul) or by a mean and a deviation (Z-score)
NoOutput ==
    [t |-> "None", array |-> NoArray, percentiles |-> <<>>,
     mean |-> NoNumber, std |-> NoNumber, image |-> <<>>]
MappedByLandmarks(lm, perc, img) ==
    [NoOutput EXCEPT !.t = "image", !.array = lm, !.percentiles = perc, !.image = img]
MappedByStatistics(m, sd, img) ==
    [NoOutput EXCEPT !.t = "image", !.mean = m, !.std = sd, !.image = img]

\* the guard of NyulStandardizer.transform, lines 76-77
MustBeTrained_Never(o) == FALSE
MustBeTrained(o) == ~o.trained

\* NyulStandardizer.transform: indexing standard_landmarks (line 108 at
\* the latest) raises TypeError for None and IndexError for the scalar nan
NyulTransform(o, img) ==
    IF MustBeTrained(o) THEN [outcome |-> "RuntimeError: must be trained", output |-> NoOutput]
    ELSE IF o.standard_landmarks.t = "None" THEN [outcome |-> "TypeError", output |-> NoOutput]
    ELSE IF o.standard_landmarks.t = "nan" THEN [outcome |-> "IndexError", output |-> NoOutput]
    ELSE [outcome |-> "returned",
          output |-> MappedByLandmarks(o.standard_landmarks, o.landmarks_percentage, img)]

\* ZScoreStandardizer.transform: statistics of the image when untrained,
\* the stored ones when trained; subtracting None (line 81) raises TypeError
ZScoreTransform(o, img) ==
    IF ~o.trained
    THEN [outcome |-> "returned",
          output |-> MappedByStatistics(StatMean(o.use_robust_statistics, NonZero(img)),
                                        StatStd(o.use_robust_statistics, NonZero(img)), img)]
    ELSE IF o.global_mean.t = "None" \/ o.global_std.t = "None"
    THEN [outcome |-> "TypeError", output |-> NoOutput]
    ELSE [outcome |-> "returned",
          output |-> MappedByStatistics(o.global_mean, o.global_std, img)]

TransformOp(o, img) ==
    IF o.kind = "nyul" THEN NyulTransform(o, img) ELSE ZScoreTransform(o, img)

\* the object after ZScoreStandardizer.transform: the statistics of the
\* image are the locals mean and std (lines 68-72), self is not assigned
ZScoreAfterTransform_Stores(o, img) ==
    IF o.trained THEN o
    ELSE [o EXCEPT !.global_mean = StatMean(o.use_robust_statistics, NonZero(img)),
                   !.global_std = StatStd(o.use_robust_statistics, NonZero(img))]
ZScoreAfterTransform(o, img) == o

\* the object after transform; NyulStandardizer.transform has no
\* assignment to self either
AfterTransform(o, img) ==
    IF o.kind = "zscore" THEN ZScoreAfterTransform(o, img) ELSE o

\* json.dump of the parameters dict: one member per key of the dict, a
\* float written so that it reads back exactly, nan as NaN, a list as an
\* array
ToJson(params) ==
    [k \in params.keys |->
        IF k = "standard_landmarks" THEN params.standard_landmarks
        ELSE IF k = "landmarks_percentage" THEN params.landmarks_percentage
        ELSE IF k = "global_mean" THEN params.global_mean
        ELSE IF k = "global_std" THEN params.global_std
        ELSE params.use_robust]

\* json.load: a dict with the members of the text
FromJson(json) ==
    LET has(k) == k \in DOMAIN json
    IN  [keys |-> DOMAIN json,
         standard_landmarks |->
             IF has("standard_landmarks") THEN json["standard_landmarks"] ELSE NoArray,
         landmarks_percentage |->
             IF has("landmarks_percentage") THEN json["landmarks_percentage"] ELSE <<>>,
         global_mean |-> IF has("global_mean") THEN json["global_mean"] ELSE NoNumber,
         global_std |-> IF has("global_std") THEN json["global_std"] ELSE NoNumber,
         use_robust |-> IF has("use_robust") THEN json["use_robust"] ELSE FALSE]

\* save_parameters writes the file, whatever the trained flag
SaveOp(o) == [written |-> TRUE, json |-> ToJson(o.parameters)]

\* load_parameters: open raises FileNotFoundError for a missing file;
\* otherwise parameters and trained are assigned, and nothing else
LoadOp(o, file) ==
    IF ~file.written
    THEN [outcome |-> "FileNotFoundError", after |-> o]
    ELSE [outcome |-> "returned",
          after |-> [o EXCEPT !.parameters = FromJson(file.json), !.trained = TRUE]]

Objects == 1..2

\* one call on an object, as recorded in ops
Call(op, obj, images, ended, before, after, output) ==
    [op |-> op, obj |-> obj, images |-> images, outcome |-> ended,
     before |-> before, after |-> after, output |-> output]

CanCall == s_pc = "active" /\ Len(ops) < MaxOps

Std_Train(obj, images) ==
    /\ CanCall
    /\ LET r == TrainOp(models[obj], images)
       IN  standardizers' =
              [standardizers EXCEPT
                  !.models[obj] = r.after,
                  !.ops = Append(@, Call("train", obj, images, r.outcome,
                                         models[obj], r.after, NoOutput))]
    /\ UNCHANGED <<evars, bvars, rvars, dvars, xvars>>

Std_Transform(obj, img) ==
    /\ CanCall
    /\ LET r == TransformOp(models[obj], img)
       IN  standardizers' =
              [standardizers EXCEPT
                  !.models[obj] = AfterTransform(@, img),
                  !.ops = Append(@, Call("transform", obj, <<img>>, r.outcome,
                                         models[obj],
                                         AfterTransform(models[obj], img),
                                         r.output))]
    /\ UNCHANGED <<evars, bvars, rvars, dvars, xvars>>

Std_Save(obj) ==
    /\ CanCall
    /\ standardizers' =
          [standardizers EXCEPT
              !.param_file = SaveOp(models[obj]),
              !.ops = Append(@, Call("save_parameters", obj, <<>>, "returned",
                                     models[obj], models[obj], NoOutput))]
    /\ UNCHANGED <<evars, bvars, rvars, dvars, xvars>>

Std_Load(obj) ==
    /\ CanCall
    /\ LET r == LoadOp(models[obj], param_file)
       IN  standardizers' =
              [standardizers EXCEPT
                  !.models[obj] = r.after,
                  !.ops = Append(@, Call("load_parameters", obj, <<>>, r.outcome,
                                         models[obj], r.after, NoOutput))]
    /\ UNCHANGED <<evars, bvars, rvars, dvars, xvars>>

NextStd ==
    \/ \E obj \in Objects, images \in TrainingSets : Std_Train(obj, images)
    \/ \E obj \in Objects, img \in Images : Std_Transform(obj, img)
    \/ \E obj \in Objects : Std_Save(obj)
    \/ \E obj \in Objects : Std_Load(obj)

SpecStd == StdInit /\ [][NextStd]_vars

StdTypeOK ==
    /\ s_pc \in {"unused", "active"}
    /\ Len(ops) <= MaxOps
    /\ \A obj \in DOMAIN models :
          /\ models[obj].kind \in {"nyul", "zscore"}
          /\ models[obj].trained \in BOOLEAN
          /\ models[obj].standard_landmarks.t \in {"None", "nan", "array"}
    /\ param_file.written \in BOOLEAN

\* ------------------------------------------- claims on the standardizers
\* the calls recorded so far, and the call a step makes
CallIndexes == 1..Len(ops)
CallMade == Len(ops') = Len(ops) + 1
TheCall == ops'[Len(ops')]

\* call k + 1 directly follows call k
Followed == {k \in CallIndexes : k + 1 \in CallIndexes}

\* C27: saving a trained standardizer's parameters with save_parameters and
\* loading them with load_parameters into a standardizer of the same kind
\* gives an equivalent model: the loaded model is trained and its transform
\* gives the same output as the original model's transform on every image.
C27_SaveLoadGivesEquivalentModel ==
    \A k \in Followed :
        (/\ ops[k].op = "save_parameters"
         /\ ops[k].before.trained
         /\ ops[k + 1].op = "load_parameters")
        => /\ ops[k + 1].after.trained
           /\ \A img \in Images :
                 TransformOp(ops[k + 1].after, img) = TransformOp(ops[k].before, img)

\* C28: NyulStandardizer.transform called on a model that was never trained
\* fails with the not-trained error and changes nothing: the trained flag,
\* the parameters and the standard landmarks of every object, and the
\* parameter file, are as before the call.
C28_UntrainedNyulTransformRaises ==
    [][(/\ CallMade
        /\ TheCall.op = "transform"
        /\ models[TheCall.obj].kind = "nyul"
        /\ ~models[TheCall.obj].trained)
       => /\ TheCall.outcome = "RuntimeError: must be trained"
          /\ TheCall.output = NoOutput
          /\ models' = models
          /\ param_file' = param_file]_vars

C28_Witness ==
    \E k \in CallIndexes :
        /\ ops[k].op = "transform"
        /\ ops[k].before.kind = "nyul"
        /\ ~ops[k].before.trained
        /\ ops[k].before.standard_landmarks = NoArray
        /\ ops[k].outcome = "RuntimeError: must be trained"

\* C29: training replaces earlier training: train(A) directly followed by
\* train(B) on the same object leaves it with the same parameters and
\* trained flag as train(B) alone would have, for any training sets A and
\* B (A = B included: training twice equals training once).
C29_TrainReplacesEarlierTraining ==
    \A k \in Followed :
        (/\ ops[k].op = "train"
         /\ ops[k + 1].op = "train"
         /\ ops[k + 1].obj = ops[k].obj)
        => LET alone == TrainOp(ops[k].before, ops[k + 1].images).after
           IN  /\ ops[k + 1].after.parameters = alone.parameters
               /\ ops[k + 1].after.trained = alone.trained

\* the successful calls of NyulStandardizer.train (on a non-empty set)
NyulTrained ==
    {k \in CallIndexes :
        /\ ops[k].op = "train"
        /\ ops[k].before.kind = "nyul"
        /\ ops[k].images # <<>>}

\* landmark i (counted from 0) of the array lm has the value
\* lower + (upper - lower) * i / (n - 1), compared without dividing
AtFraction(lm, i, n, scale) ==
    lm.num[i + 1] * (n - 1)
        = lm.den * ((scale[1] * (n - 1)) + ((scale[2] - scale[1]) * i))

\* C30 as stated: after NyulStandardizer.train on any non-empty training
\* set, the first standard landmark equals the lower target bound, the
\* last equals the upper target bound, interior landmark i of n equals
\* lower + (upper - lower) * i / (n - 1), and no landmark depends on the
\* training images.
C30_LandmarksFromRangeOnly ==
    \A k \in NyulTrained :
        LET lm == ops[k].after.standard_landmarks
            n == Len(ops[k].before.landmarks_percentage)
            scale == ops[k].before.standard_scale
        IN  /\ ops[k].outcome = "returned"
            /\ lm.t = "array" /\ Len(lm.num) = n
            /\ lm.num[1] = scale[1] * lm.den
            /\ lm.num[n] = scale[2] * lm.den
            /\ \A i \in 1..(n - 2) : AtFraction(lm, i, n, scale)
            /\ lm.averaged = {}

\* C30 for at least two landmarks: first landmark the lower bound, last
\* the upper bound, interior landmark i at lower + (upper - lower) * i /
\* (n - 1), none depending on the training images, and the same list is
\* stored in the parameters; a single landmark ends as the upper bound.
C30_LandmarksFromRangeOnly_TwoOrMore ==
    \A k \in NyulTrained :
        LET lm == ops[k].after.standard_landmarks
            n == Len(ops[k].before.landmarks_percentage)
            scale == ops[k].before.standard_scale
        IN  /\ ops[k].outcome = "returned"
            /\ lm.t = "array" /\ Len(lm.num) = n
            /\ lm.averaged = {}
            /\ ops[k].after.parameters.standard_landmarks = lm
            /\ lm.num[n] = scale[2] * lm.den
            /\ n >= 2 =>
                  /\ lm.num[1] = scale[1] * lm.den
                  /\ \A i \in 1..(n - 2) : AtFraction(lm, i, n, scale)

C30_Witness ==
    \E k \in NyulTrained :
        /\ Len(ops[k].before.landmarks_percentage) >= 3
        /\ Len(ops[k].images) = 2
        /\ ops[k].before.standard_scale = <<10, 20>>
        /\ ops[k].after.standard_landmarks.num[2] * 2
              = ops[k].after.standard_landmarks.den * 30

\* ======================================================================
\* NyulStandardizer.transform, voxel by voxel (lines 79-117).  An image is
\* the sequence of its voxel values (integers, 0 is background) and its
\* pixel type; a result voxel is a fraction <<numerator, denominator>>.
\* ======================================================================

\* the voxel values and pixel types of the model
VoxelValues == {0, 1, 2, 4}
PixelTypes == {"float", "int"}

\* the images with a voxel above 0 (np.percentile of no value is left out)
RECURSIVE SeqsUpTo(_, _)
SeqsUpTo(S, n) ==
    IF n = 0 THEN {<<>>}
    ELSE LET shorter == SeqsUpTo(S, n - 1)
         IN  shorter \cup {Append(q, x) : q \in {t \in shorter : Len(t) = n - 1}, x \in S}
PixelImages == {img \in SeqsUpTo(VoxelValues, MaxVoxels) : NonZero(img) # <<>>}

\* a NyulStandardizer trained on one image
TrainedModels ==
    {NyulTrain(NewNyul(n, sc), <<(<<0, 1, 3>>)>>).after :
        n \in 1..MaxLandmarks, sc \in Scales}

NyulInit ==
    /\ EngineIdle
    /\ BatchUnused
    /\ RegUnused
    /\ DiscUnused
    /\ ExtraUnused
    /\ \E m \in TrainedModels : standardizers = StdFresh("mapping", <<m>>)

\* line 87, np.percentile(non_zero, percs) with linear interpolation between
\* the two nearest ranks: numerators over 100
ImageLandmarks(img, percs) ==
    LET nz == SortSeq(NonZero(img), LAMBDA a, b : a < b)
        m == Len(nz)
    IN  [k \in 1..Len(percs) |->
            LET at == (m - 1) * percs[k]
                below == (at \div 100) + 1
                part == at % 100
            IN  IF part = 0 THEN 100 * nz[below]
                ELSE (100 * nz[below]) + (part * (nz[below + 1] - nz[below]))]

\* line 97: the voxel (times 100) lies in the interval of the landmarks
InRange_Open(X, lower, upper) == X > lower /\ X < upper
InRange(X, lower, upper) == X >= lower /\ X < upper

\* lines 101-105 for the voxel x in interval i
Linear(lm, L, x, i) ==
    << (lm.num[i] * (L[i + 1] - L[i]))
          + ((lm.num[i + 1] - lm.num[i]) * ((100 * x) - L[i])),
       lm.den * (L[i + 1] - L[i]) >>

\* lines 93-105: the intervals in turn, from interval i on, each one with
\* upper > lower overwriting what the voxel had
RECURSIVE Piecewise(_, _, _, _, _)
Piecewise(lm, L, x, i, cur) ==
    IF i > Len(L) - 1 THEN cur
    ELSE Piecewise(lm, L, x, i + 1,
                   IF L[i + 1] > L[i] /\ InRange(100 * x, L[i], L[i + 1])
                   THEN Linear(lm, L, x, i) ELSE cur)

\* line 108: voxels at or above the last landmark get the last standard
\* landmark
MaxRule(lm, L, x, cur) ==
    IF 100 * x >= L[Len(L)] THEN <<lm.num[Len(L)], lm.den>> ELSE cur

\* line 111: background stays 0
PreserveZeros_AsLowerBound(lm, x, cur) == IF x = 0 THEN <<lm.num[1], lm.den>> ELSE cur
PreserveZeros(lm, x, cur) == IF x = 0 THEN <<0, 1>> ELSE cur

\* an assignment into the array of np.zeros_like(img_array) keeps the pixel
\* type of the image: a value assigned to an integer array loses its
\* fraction
Stored(type, v) ==
    IF type = "int" /\ v[1] >= 0 THEN <<v[1] \div v[2], 1>>
    ELSE IF type = "int" THEN <<0 - ((0 - v[1]) \div v[2]), 1>>
    ELSE v

\* the result of one voxel: line 90, the loop, line 108, line 111
NyulVoxel(lm, L, x, type) ==
    LET looped == Stored(type, Piecewise(lm, L, x, 1, <<0, 1>>))
        topped == Stored(type, MaxRule(lm, L, x, looped))
    IN  Stored(type, PreserveZeros(lm, x, topped))

\* the image transform returns
NyulOutput(o, img, type) ==
    LET L == ImageLandmarks(img, o.landmarks_percentage)
    IN  [t |-> "image", type |-> type, source_landmarks |-> L,
         voxels |-> [v \in 1..Len(img) |-> NyulVoxel(o.standard_landmarks, L, img[v], type)]]

\* one call of transform on the trained model
Nyul_Map(img, type) ==
    /\ s_pc = "mapping"
    /\ ops = <<>>
    /\ standardizers' =
          [standardizers EXCEPT
              !.ops = Append(@, Call("transform", 1, <<img>>,
                                     NyulTransform(models[1], img).outcome,
                                     models[1], models[1],
                                     NyulOutput(models[1], img, type)))]
    /\ UNCHANGED <<evars, bvars, rvars, dvars, xvars>>

NextNyul == \E img \in PixelImages, type \in PixelTypes : Nyul_Map(img, type)

SpecNyul == NyulInit /\ [][NextNyul]_vars

NyulTypeOK ==
    /\ s_pc = "mapping"
    /\ Len(ops) <= 1
    /\ \A k \in 1..Len(ops) :
          /\ ops[k].outcome = "returned"
          /\ Len(ops[k].output.voxels) = Len(ops[k].images[1])
          /\ \A v \in 1..Len(ops[k].output.voxels) : ops[k].output.voxels[v][2] > 0

\* ------------------------------------- claims on the voxels of transform
\* the calls of NyulStandardizer.transform that returned an image
Mapped ==
    {k \in CallIndexes :
        /\ ops[k].op = "transform"
        /\ ops[k].before.kind = "nyul"
        /\ ops[k].outcome = "returned"}

\* the image of call k, its voxel positions, its non-background values
ImageOf(k) == ops[k].images[1]
VoxelsOf(k) == 1..Len(ImageOf(k))
IntensitiesOf(k) == {ImageOf(k)[v] : v \in VoxelsOf(k)} \ {0}

\* the result voxel r is the number b
IsNumber(r, b) == r[1] = b * r[2]

\* C31: for a trained Nyul model and an image with at least two distinct
\* non-background intensities, transform maps the lowest non-background
\* intensity to the lower target bound and the highest intensity to the
\* upper target bound.
C31_ExtremesMapToBounds ==
    \A k \in Mapped :
        Cardinality(IntensitiesOf(k)) >= 2 =>
            \A v \in VoxelsOf(k) :
                LET x == ImageOf(k)[v]
                    scale == ops[k].before.standard_scale
                IN  /\ (x # 0 /\ \A y \in IntensitiesOf(k) : x <= y)
                       => IsNumber(ops[k].output.voxels[v], scale[1])
                    /\ (\A y \in IntensitiesOf(k) : x >= y)
                       => IsNumber(ops[k].output.voxels[v], scale[2])

\* C32: NyulStandardizer.transform maps every background voxel (value 0)
\* to 0 in the output, whatever the landmarks and the pixel type.
C32_BackgroundStaysZero ==
    \A k \in Mapped :
        \A v \in VoxelsOf(k) :
            ImageOf(k)[v] = 0 => IsNumber(ops[k].output.voxels[v], 0)

C32_Witness ==
    \E k \in Mapped :
        /\ ops[k].before.standard_scale = <<10, 20>>
        /\ Len(ops[k].before.landmarks_percentage) >= 2
        /\ \E v \in VoxelsOf(k) :
              ImageOf(k)[v] = 0 /\ IsNumber(ops[k].output.voxels[v], 0)
        /\ \E v \in VoxelsOf(k) :
              ImageOf(k)[v] # 0 /\ ~IsNumber(ops[k].output.voxels[v], 0)

\* the zero-width source intervals of call k, and the voxels whose value
\* lies in one (the value is the repeated landmark)
ZeroWidth(k) ==
    LET L == ops[k].output.source_landmarks
    IN  {i \in 1..(Len(L) - 1) : L[i] = L[i + 1]}
InZeroWidth(k) ==
    LET L == ops[k].output.source_landmarks
    IN  {v \in VoxelsOf(k) : \E i \in ZeroWidth(k) : 100 * ImageOf(k)[v] = L[i]}

\* C36 as stated: a voxel whose value lies in a zero-width source landmark
\* interval receives no mapping from any interval and is left at the
\* initial output value 0, also when the voxel is not background.
C36_ZeroWidthLeavesZero ==
    \A k \in Mapped :
        \A v \in InZeroWidth(k) : IsNumber(ops[k].output.voxels[v], 0)

\* C36 amended: a zero-width interval gives no mapping itself, but a voxel
\* whose value is the repeated landmark is not left at 0: it gets the upper
\* target bound if the landmark is the last one, and otherwise the standard
\* landmark of the last source landmark with that value, from the interval
\* that begins there (stored in the pixel type of the image).
C36_ZeroWidthMappedByNextInterval ==
    \A k \in Mapped :
        \A v \in InZeroWidth(k) :
            LET L == ops[k].output.source_landmarks
                lm == ops[k].before.standard_landmarks
                n == Len(L)
                X == 100 * ImageOf(k)[v]
                j == CHOOSE i \in 1..n : L[i] = X /\ \A h \in 1..n : L[h] = X => h <= i
            IN  ops[k].output.voxels[v]
                    = Stored(ops[k].output.type,
                             IF j = n THEN <<ops[k].before.standard_scale[2] * lm.den, lm.den>>
                             ELSE <<lm.num[j] * (L[j + 1] - L[j]),
                                    lm.den * (L[j + 1] - L[j])>>)

C36_Witness ==
    \E k \in Mapped :
        \E v \in InZeroWidth(k) :
            /\ 100 * ImageOf(k)[v] < ops[k].output.source_landmarks[Len(ops[k].output.source_landmarks)]
            /\ ~IsNumber(ops[k].output.voxels[v], 0)

\* C33: ZScoreStandardizer.transform on an untrained model does not fail, it
\* standardizes with the statistics of the given image alone and leaves the
\* model untrained with no stored global statistics (so that successive
\* transforms are independent of each other); on a trained model it uses
\* the stored global statistics; in both cases no object and no parameter
\* file is changed.
C33_ZScoreTransformFrame ==
    [][(/\ CallMade
        /\ TheCall.op = "transform"
        /\ models[TheCall.obj].kind = "zscore")
       => LET o == models[TheCall.obj]
              img == TheCall.images[1]
          IN  /\ models' = models
              /\ param_file' = param_file
              /\ ~o.trained =>
                    /\ TheCall.outcome = "returned"
                    /\ TheCall.output.t = "image"
                    /\ TheCall.output.mean = StatMean(o.use_robust_statistics, NonZero(img))
                    /\ TheCall.output.std = StatStd(o.use_robust_statistics, NonZero(img))
                    /\ ~models'[TheCall.obj].trained
                    /\ models'[TheCall.obj].global_mean = NoNumber
                    /\ models'[TheCall.obj].global_std = NoNumber
              /\ (o.trained /\ o.global_mean # NoNumber) =>
                    /\ TheCall.outcome = "returned"
                    /\ TheCall.output.mean = o.global_mean
                    /\ TheCall.output.std = o.global_std]_vars

C33_Witness ==
    \E k \in Followed :
        /\ ops[k].op = "transform" /\ ops[k + 1].op = "transform"
        /\ ops[k].obj = ops[k + 1].obj
        /\ ops[k].before.kind = "zscore"
        /\ ~ops[k].before.trained
        /\ ops[k].images # ops[k + 1].images
        /\ ops[k].outcome = "returned" /\ ops[k + 1].outcome = "returned"
        /\ ops[k].output.mean # ops[k + 1].output.mean
        /\ ~models[ops[k].obj].trained

\* ======================================================================
\* One pipeline object, BasePipeline.execute called on it again and again
\* (process_patient_directory and the unified batch pipeline call
\* self.execute once per patient on the same object).
\* ======================================================================
Raised == {"none", "Exception", "BaseException"}
StepEnds == {"ok", "Exception", "BaseException"}

NoMetadata == [finalized |-> FALSE, start_time |-> 0]

\* PipelineStep.__init__ and BasePipeline.__init__ for a pipeline of n steps
NewPipeline(n) ==
    [pc |-> "idle",
     n |-> n,
     stepStatus |-> [i \in 1..n |-> "pending"],
     status |-> "initialized",
     continue_on_error |-> FALSE,
     current_step_index |-> 0,
     errors |-> <<>>,
     start_time |-> 0,
     end_time |-> 0,
     metadata |-> NoMetadata,
     raising |-> "none",
     outcome |-> "none",
     run |-> 0,
     failures |-> <<>>,       \* the error_info dicts appended in this call
     clock |-> 0]             \* what time.time() returns next, at least

RerunInit ==
    /\ EngineIdle
    /\ BatchUnused
    /\ RegUnused
    /\ DiscUnused
    /\ StdUnused
    /\ ItemUnused
    /\ \E n \in 1..MaxSteps : rerun = NewPipeline(n)

rr_pc == rerun.pc
rr_at == rerun.current_step_index + 1

\* lines 83-100: a new call of execute on the object
Rr_Begin(coe) ==
    /\ rr_pc = "idle"
    /\ rerun.run < MaxRuns
    /\ rerun' = [rerun EXCEPT
            !.continue_on_error = coe,
            !.start_time = rerun.clock,
            !.status = "running",
            !.current_step_index = 0,
            !.metadata = [finalized |-> FALSE, start_time |-> rerun.clock],
            !.raising = "none",
            !.outcome = "none",
            !.failures = <<>>,
            !.run = @ + 1,
            !.pc = "enter"]
    /\ UNCHANGED <<evars, bvars, rvars, dvars, svars, prun>>

\* lines 104-109: the loop reaches the next step
Rr_Enter ==
    /\ rr_pc = "enter"
    /\ rerun' = [rerun EXCEPT
            !.stepStatus[rr_at] = "running",
            !.pc = "try"]
    /\ UNCHANGED <<evars, bvars, rvars, dvars, svars, prun>>

\* lines 111-164: validate_inputs and execute of the step end with res
Rr_Try(res) ==
    /\ rr_pc = "try"
    /\ LET info == ErrorInfo(rr_at, rerun.current_step_index, "Exception")
       IN  rerun' = [rerun EXCEPT
            !.stepStatus[rr_at] =
                IF res = "ok" THEN "completed"
                ELSE IF res = "Exception" THEN "failed" ELSE @,
            !.errors = IF res = "Exception" THEN Append(@, info) ELSE @,
            !.failures = IF res = "Exception" THEN Append(@, info) ELSE @,
            !.raising =
                IF res = "Exception"
                THEN (IF AbortOnFailure(rerun.continue_on_error)
                      THEN "Exception" ELSE "none")
                ELSE IF res = "BaseException" THEN "BaseException" ELSE "none",
            !.pc = "cleanup"]
    /\ UNCHANGED <<evars, bvars, rvars, dvars, svars, prun>>

\* lines 166-171: step.cleanup() in the finally clause; an Exception of it
\* is logged, anything else replaces the exception in flight
Rr_Cleanup(res) ==
    /\ rr_pc = "cleanup"
    /\ LET flying == IF res = "BaseException" THEN res ELSE rerun.raising
           more == flying = "none" /\ rr_at < rerun.n
       IN  rerun' = [rerun EXCEPT
            !.raising = flying,
            !.current_step_index = IF more THEN @ + 1 ELSE @,
            !.pc = IF more THEN "enter" ELSE "finish"]
    /\ UNCHANGED <<evars, bvars, rvars, dvars, svars, prun>>

\* lines 173-194: line 174 or the handler of lines 177-182, then the
\* finally clause; the clock has not gone back since line 84
Rr_End(tick) ==
    /\ rr_pc = "finish"
    /\ LET now == rerun.clock + tick
           st == IF rerun.raising = "none" THEN "completed"
                 ELSE IF rerun.raising = "Exception" THEN "failed"
                 ELSE rerun.status
       IN  rerun' = [rerun EXCEPT
            !.status = st,
            !.end_time = now,
            !.clock = now,
            !.metadata = [finalized |-> TRUE,
                          start_time |-> rerun.metadata.start_time,
                          end_time |-> now,
                          status |-> st,
                          errors |-> rerun.errors],
            !.outcome = IF rerun.raising = "none" THEN "returned" ELSE "raised",
            !.pc = "idle"]
    /\ UNCHANGED <<evars, bvars, rvars, dvars, svars, prun>>

NextRerun ==
    \/ \E coe \in BOOLEAN : Rr_Begin(coe)
    \/ Rr_Enter
    \/ \E res \in StepEnds : Rr_Try(res)
    \/ \E res \in StepEnds : Rr_Cleanup(res)
    \/ \E tick \in 0..1 : Rr_End(tick)

SpecRerun == RerunInit /\ [][NextRerun]_vars

RerunTypeOK ==
    /\ rr_pc \in {"idle", "enter", "try", "cleanup", "finish"}
    /\ rerun.run \in 0..MaxRuns
    /\ rerun.raising \in Raised
    /\ rerun.clock \in 0..MaxRuns
    /\ rr_at \in 1..rerun.n
    /\ Len(rerun.errors) <= rerun.n * MaxRuns

\* ---------------------------------------------------------------------
\* vocabulary of the claims about repeated calls
\* ---------------------------------------------------------------------
\* execute has finished, by returning or by raising
RrFinished == rr_pc = "idle" /\ rerun.outcome # "none"

StepTransitions ==
    {<<"pending", "running">>, <<"running", "completed">>,
     <<"running", "failed">>}

\* the steps after the one at which the call stopped
RrUnreached == {i \in 1..rerun.n : i > rr_at}

\* C34: a step's status only goes pending -> running, running -> completed
\* or running -> failed; when a call of execute ends by raising, the steps
\* it did not reach are pending.
C34_StepStatusStateMachine ==
    [][/\ \A i \in 1..rerun.n :
            rerun.stepStatus[i] # rerun'.stepStatus[i]
                => <<rerun.stepStatus[i], rerun'.stepStatus[i]>> \in StepTransitions
       /\ (rr_pc = "finish" /\ rerun.raising # "none")
            => \A i \in RrUnreached : rerun'.stepStatus[i] = "pending"]_vars

\* C37: the 'errors' of the metadata of a finished call are exactly the
\* failures of that call, one for each step that failed in it.
C37_MetadataErrorsOfThisRun ==
    RrFinished => rerun.metadata.errors = rerun.failures

\* C38: when execute has finished the pipeline status is completed or
\* failed, the metadata is finalized with end_time >= start_time and the
\* pipeline's status, and the status is failed exactly when execute raised.
C38_StatusAtFinish ==
    RrFinished =>
        /\ rerun.status \in {"completed", "failed"}
        /\ rerun.metadata.finalized
        /\ rerun.metadata.end_time >= rerun.metadata.start_time
        /\ rerun.metadata.status = rerun.status
        /\ (rerun.status = "failed") <=> (rerun.outcome = "raised")

\* ======================================================================
\* One run of PreprocessingPipeline (comprehensive_pipeline.py), called
\* directly or by BatchProcessingStep._process_single_patient, which reads
\* the two images before the run and writes the results after it.
\* ======================================================================
InputImages == {"t2w_image", "adc_image"}
LibraryEnds == {"ok", "raise"}

\* PreprocessingPipeline.__init__, lines 32-38
PipelineSteps(enable_segmentation) ==
    IF enable_segmentation
    THEN <<"StandardizationStep", "SegmentationStep", "ROIExtractionStep",
           "RegistrationStep">>
    ELSE <<"StandardizationStep", "RegistrationStep">>

\* data.get(a, data.get(b, ...)) is not None
Has(data, keys) == keys \cap data # {}

\* StandardizationStep.execute: the keys of the returned dict
StandardizationResult(data) ==
    (IF "t2w_image" \in data THEN {"t2w_standardized"} ELSE {})
        \cup (IF "adc_image" \in data THEN {"adc_standardized"} ELSE {})

\* ROIExtractionStep.execute, lines 119-126
RoiSources == {"t2w_standardized", "adc_standardized", "t2w_image", "adc_image"}
RoiKey(k) ==
    CASE k = "t2w_standardized" -> "t2w_standardized_roi"
      [] k = "adc_standardized" -> "adc_standardized_roi"
      [] k = "t2w_image" -> "t2w_image_roi"
      [] k = "adc_image" -> "adc_image_roi"
RoiResult(data) == {RoiKey(k) : k \in RoiSources \cap data} \cup {"roi_mask"}

FixedKeys == {"t2w_standardized_roi", "t2w_standardized", "t2w_image"}
MovingKeys == {"adc_standardized_roi", "adc_standardized", "adc_image"}
RegistrationResult ==
    {"registered_adc", "registration_transform", "registration_type"}

\* execute of the step on the context data, the library call it makes (if
\* it makes one) ending with ext: the keys it returns, or that it raises
Raises == [raises |-> TRUE]
Returns(keys) == [raises |-> FALSE, keys |-> keys]
StepExecute(name, data, ext) ==
    CASE name = "StandardizationStep" ->
            IF Has(data, InputImages) /\ ext = "raise" THEN Raises
            ELSE Returns(StandardizationResult(data))
      [] name = "SegmentationStep" ->
            IF ~Has(data, {"t2w_standardized", "t2w_image"}) THEN Raises
            ELSE IF ext = "raise" THEN Raises
            ELSE Returns({"prostate_segmentation"})
      [] name = "ROIExtractionStep" ->
            IF "prostate_segmentation" \notin data THEN Returns({})
            ELSE IF ~Has(data, RoiSources) THEN Raises
            ELSE IF ext = "raise" THEN Raises
            ELSE Returns(RoiResult(data))
      [] name = "RegistrationStep" ->
            IF ~Has(data, FixedKeys) \/ ~Has(data, MovingKeys) THEN Raises
            ELSE IF ext = "raise" THEN Raises
            ELSE Returns(RegistrationResult)

\* an entry of results['step_results']
StepSucceeded(keys) == [status |-> "success", result |-> keys]
StepRaised == [status |-> "failed"]

\* a PreprocessingPipeline before execute, or a patient before line 283
NewRun(caller, enable_segmentation, coe, given) ==
    [pc |-> IF caller = "batch" THEN "read" ELSE "run",
     mode |-> caller,
     enable_segmentation |-> enable_segmentation,
     continue_on_error |-> coe,
     input |-> given,
     steps |-> PipelineSteps(enable_segmentation),
     at |-> 1,
     data |-> {},
     stepStatus |-> [i \in 1..Len(PipelineSteps(enable_segmentation)) |-> "pending"],
     step_results |-> <<>>,     \* a sequence of <<step name, entry>>
     library |-> <<>>,          \* how the library call of each step ended
     status |-> "initialized",
     raising |-> FALSE,
     outcome |-> "none",
     k |-> 1,
     persisted |-> {},
     outputs_saved |-> <<>>,
     report |-> "none"]

PrInit ==
    /\ EngineIdle
    /\ BatchUnused
    /\ RegUnused
    /\ DiscUnused
    /\ StdUnused
    /\ RerunUnused
    /\ \/ \E seg \in BOOLEAN, coe \in BOOLEAN, given \in SUBSET InputImages :
            prun = NewRun("direct", seg, coe, given)
       \/ \E seg \in BOOLEAN : prun = NewRun("batch", seg, FALSE, {})

p_pc == prun.pc
p_step == prun.steps[prun.at]

\* the entry of a step in step_results, if it has one
HasEntry(name) == \E j \in 1..Len(prun.step_results) : prun.step_results[j][1] = name
EntryOf(name) ==
    LET j == CHOOSE j \in 1..Len(prun.step_results) : prun.step_results[j][1] = name
    IN  prun.step_results[j][2]

\* batch_preprocessing.py lines 285-286: sitk.ReadImage of the two paths
Pr_Read(res) ==
    /\ p_pc = "read"
    /\ prun' = IF res = "ok"
               THEN [prun EXCEPT !.input = InputImages, !.pc = "run"]
               ELSE [prun EXCEPT !.report = "failed", !.pc = "done"]
    /\ UNCHANGED <<evars, bvars, rvars, dvars, svars, rerun>>

\* base_pipeline.py lines 83-100
Pr_Begin ==
    /\ p_pc = "run"
    /\ prun' = [prun EXCEPT !.status = "running",
                            !.data = prun.input,
                            !.pc = "step"]
    /\ UNCHANGED <<evars, bvars, rvars, dvars, svars, rerun>>

\* base_pipeline.py lines 104-171 for the step at prun.at (the steps of
\* comprehensive_pipeline.py keep the default validate_inputs and cleanup)
Pr_Step(ext) ==
    /\ p_pc = "step"
    /\ LET r == StepExecute(p_step, prun.data, ext)
           abort == r.raises /\ AbortOnFailure(prun.continue_on_error)
           more == ~abort /\ prun.at < Len(prun.steps)
       IN  prun' = [prun EXCEPT
            !.stepStatus[prun.at] = IF r.raises THEN "failed" ELSE "completed",
            !.data = IF r.raises THEN @ ELSE @ \cup r.keys,
            !.step_results = Append(@, <<p_step,
                IF r.raises THEN StepRaised ELSE StepSucceeded(r.keys)>>),
            !.library = Append(@, ext),
            !.raising = abort,
            !.at = IF more THEN @ + 1 ELSE @,
            !.pc = IF more THEN "step" ELSE "finish"]
    /\ UNCHANGED <<evars, bvars, rvars, dvars, svars, rerun>>

\* base_pipeline.py lines 173-194, and in a batch the handler of
\* batch_preprocessing.py line 343 when execute raises
Pr_End ==
    /\ p_pc = "finish"
    /\ prun' = [prun EXCEPT
            !.status = IF prun.raising THEN "failed" ELSE "completed",
            !.outcome = IF prun.raising THEN "raised" ELSE "returned",
            !.report = IF prun.mode = "batch" /\ prun.raising THEN "failed" ELSE @,
            !.pc = IF prun.mode = "batch" /\ ~prun.raising THEN "save" ELSE "done"]
    /\ UNCHANGED <<evars, bvars, rvars, dvars, svars, rerun>>

\* batch_preprocessing.py lines 311-318
outputs_to_save ==
    << <<"t2w_standardized", "StandardizationStep">>,
       <<"adc_standardized", "StandardizationStep">>,
       <<"prostate_segmentation", "SegmentationStep">>,
       <<"registered_adc", "RegistrationStep">>,
       <<"t2w_standardized_roi", "ROIExtractionStep">>,
       <<"adc_standardized_roi", "ROIExtractionStep">> >>

\* lines 320-326 for the k-th output; the 'result' of a failed step is None
\* and `output_name in None` raises; sitk.WriteImage ends with w
Pr_Save(w) ==
    /\ p_pc = "save"
    /\ LET output_name == outputs_to_save[prun.k][1]
           step_name == outputs_to_save[prun.k][2]
           next == IF prun.k < Len(outputs_to_save)
                   THEN [prun EXCEPT !.k = @ + 1]
                   ELSE [prun EXCEPT !.pc = "transform"]
           caught == [prun EXCEPT !.report = "failed", !.pc = "done"]
       IN  prun' =
            IF ~HasEntry(step_name) THEN next
            ELSE IF EntryOf(step_name).status = "failed" THEN caught
            ELSE IF output_name \notin EntryOf(step_name).result THEN next
            ELSE IF w = "raise" THEN caught
            ELSE [next EXCEPT !.persisted = @ \cup {output_name},
                              !.outputs_saved = Append(@, output_name)]
    /\ UNCHANGED <<evars, bvars, rvars, dvars, svars, rerun>>

\* lines 329-341: the transform, then the report of success
Pr_SaveTransform(w) ==
    /\ p_pc = "transform"
    /\ LET caught == [prun EXCEPT !.report = "failed", !.pc = "done"]
           done == [prun EXCEPT !.report = "success", !.pc = "done"]
       IN  prun' =
            IF ~HasEntry("RegistrationStep") THEN done
            ELSE IF EntryOf("RegistrationStep").status = "failed" THEN caught
            ELSE IF "registration_transform" \notin EntryOf("RegistrationStep").result
                 THEN done
            ELSE IF w = "raise" THEN caught
            ELSE [done EXCEPT !.persisted = @ \cup {"registration_transform"}]
    /\ UNCHANGED <<evars, bvars, rvars, dvars, svars, rerun>>

NextPr ==
    \/ \E res \in LibraryEnds : Pr_Read(res)
    \/ Pr_Begin
    \/ \E ext \in LibraryEnds : Pr_Step(ext)
    \/ Pr_End
    \/ \E w \in LibraryEnds : Pr_Save(w)
    \/ \E w \in LibraryEnds : Pr_SaveTransform(w)

SpecPr == PrInit /\ [][NextPr]_vars

PrTypeOK ==
    /\ p_pc \in {"read", "run", "step", "finish", "save", "transform", "done"}
    /\ prun.at \in 1..Len(prun.steps)
    /\ prun.k \in 1..Len(outputs_to_save)
    /\ prun.report \in {"none", "success", "failed"}
    /\ Len(prun.step_results) <= Len(prun.steps)
    /\ prun.mode = "batch" => ~prun.continue_on_error

\* ---------------------------------------------------------------------
\* vocabulary of the claims about a run of PreprocessingPipeline
\* ---------------------------------------------------------------------
\* execute has finished, by returning or by raising
PrFinished == prun.outcome # "none"

\* the position of a step in the pipeline, 0 if the pipeline has no such step
PositionOf(name) ==
    IF \E i \in 1..Len(prun.steps) : prun.steps[i] = name
    THEN CHOOSE i \in 1..Len(prun.steps) : prun.steps[i] = name
    ELSE 0
StatusOf(name) == prun.stepStatus[PositionOf(name)]
SomeStepFailed == \E i \in 1..Len(prun.steps) : prun.stepStatus[i] = "failed"
AllStepsCompleted == \A i \in 1..Len(prun.steps) : prun.stepStatus[i] = "completed"

\* what the run produced of the volumes and the transform that
\* _process_single_patient writes
ArtifactNames ==
    {outputs_to_save[j][1] : j \in 1..Len(outputs_to_save)}
        \cup {"registration_transform"}
Artifacts == prun.data \cap ArtifactNames

\* C35: a finished run whose input lacks the T2W or the ADC image: the
\* standardization step has not failed for the missing image (only if its
\* library call failed), the registration step has failed, the run has
\* ended failed and there is no registered image and no transform.
C35_MissingImageFailsRegistration ==
    (PrFinished /\ prun.input # InputImages) =>
        /\ StatusOf("StandardizationStep") = "failed" => prun.library[1] = "raise"
        /\ StatusOf("RegistrationStep") = "failed"
        /\ prun.status = "failed"
        /\ prun.outcome = "raised"
        /\ prun.data \cap {"registered_adc", "registration_transform"} = {}

\* C39: a patient of a batch is reported successful only if every step of
\* its run succeeded and every artifact of the run was written; if a step of
\* its run failed the patient is reported failed and no artifact is written.
C39_SuccessOnlyIfAllStepsAndArtifacts ==
    prun.mode = "batch" =>
        /\ prun.report = "success" =>
                /\ AllStepsCompleted
                /\ prun.persisted = Artifacts
        /\ SomeStepFailed =>
                /\ prun.persisted = {}
                /\ prun.report # "success"
                /\ p_pc = "done" => prun.report = "failed"

\* the registration step failed after the others had produced their volumes
C39_Witness ==
    /\ prun.mode = "batch"
    /\ p_pc = "done"
    /\ prun.enable_segmentation
    /\ StatusOf("StandardizationStep") = "completed"
    /\ StatusOf("ROIExtractionStep") = "completed"
    /\ StatusOf("RegistrationStep") = "failed"
    /\ "t2w_standardized_roi" \in Artifacts
    /\ prun.report = "failed"
    /\ prun.persisted = {}

\* a patient reported successful, with every volume and the transform written
C39_SuccessReached ==
    /\ prun.mode = "batch"
    /\ prun.report = "success"
    /\ Cardinality(prun.persisted) = Cardinality(ArtifactNames)

\* ---------------------------------------------------------------------
\* the accounting of PranavBatchProcessor.execute (registration processor)
\* ---------------------------------------------------------------------
RangeOf(q) == {q[i] : i \in 1..Len(q)}
\* the rows of the patient in the error CSV, after the header row
RowsOf(id) == Cardinality({i \in 2..Len(r_error_rows) : r_error_rows[i] = id})
Scanned == 1..r_results.total_patients

\* C40: when execute has returned, every scanned patient directory is in
\* exactly one of 'successful' and 'failed', the two counts add up to
\* total_patients, every failed patient has exactly one row in the error CSV
\* and an entry in 'detailed_results' that gives its error.
C40_EveryDirectoryAccounted ==
    r_pc = "returned" =>
        /\ \A id \in Scanned :
              (id \in RangeOf(r_results.successful))
                  # (id \in RangeOf(r_results.failed))
        /\ Len(r_results.successful) + Len(r_results.failed)
              = r_results.total_patients
        /\ \A id \in RangeOf(r_results.failed) :
              /\ RowsOf(id) = 1
              /\ id \in DOMAIN r_results.detailed_results
              /\ ~r_results.detailed_results[id].success
              /\ r_results.detailed_results[id].error # ""

\* the same without the entry in 'detailed_results'
RegCountsAddUp ==
    r_pc = "returned" =>
        /\ \A id \in Scanned :
              (id \in RangeOf(r_results.successful))
                  # (id \in RangeOf(r_results.failed))
        /\ Len(r_results.successful) + Len(r_results.failed)
              = r_results.total_patients
        /\ \A id \in RangeOf(r_results.failed) : RowsOf(id) = 1
        /\ \A id \in DOMAIN r_results.detailed_results :
              r_results.detailed_results[id].success
                  <=> id \in RangeOf(r_results.successful)
====
